---- MODULE Spec2Model ----
(***************************************************************************)
(* Tiny-MoA orchestration engine.                                          *)
(*                                                                         *)
(* SpecCowork : TinyMoA.run_cowork_flow, its task queue, the parallel      *)
(*              runner, the workers and the model lock.                    *)
(* SpecTool   : TinyMoA._handle_tool_call (the Tool Dispatcher) and the    *)
(*              direct tool calls of ToolWorker.                           *)
(* SpecRoute  : Brain.route (keyword fast path, LLM fallback, keyword      *)
(*              pass after a parse failure).                               *)
(***************************************************************************)
EXTENDS Integers, Sequences, FiniteSets, TLC

VARIABLES
    \* ---- run_cowork_flow (orchestrator thread) ----
    pc,             \* position of the orchestrator thread in run_cowork_flow
    phase,          \* 1 = first_phase, 2 = second_phase
    use_tui,        \* the use_tui argument of run_cowork_flow
    is_hybrid,      \* is_hybrid_mode (rag_context and needs_tool)
    plan,           \* agent_type of each queued task, in queue order
    status,         \* CoworkTask.status of each task
    result,         \* CoworkTask.result of each task
    tpc,            \* position of each task inside execute_single_task
    res,            \* what the worker returned or raised for each task
    lock,           \* holders of TinyMoA._model_lock (empty or one thread)
    completing,     \* threads that are inside a model completion call
    elapsed,        \* 60 s have passed since run_tasks submitted the phase
    late,           \* the task finished after those 60 s
    final_results,  \* ParallelRunner.run_tasks: task id -> TaskResult
    results,        \* the results list: ContextEntry, or i for the block of task i
    \* ---- _handle_tool_call ----
    hin,            \* the inputs of the call under study
    hpc,            \* position inside _handle_tool_call
    tool_name,      \* tool_call["name"]
    arguments,      \* argument names of the first call
    calls,          \* every (tool, argument names) passed to ToolExecutor.execute
    repairs,        \* number of repair prompts sent to the LLM
    outcome,        \* what _handle_tool_call returned
    raw_result,     \* the text of the first result's payload, as words
    corrected_args_str, \* the kind of answer the repair prompt got
    \* ---- Brain.route ----
    rpc,            \* position inside Brain.route
    user_input,     \* the keywords the input contains
    decision,       \* the returned decision
    \* ---- ToolExecutor.execute ----
    epc,            \* position inside ToolExecutor.execute
    ecall,          \* the tool name and, for execute_command, the command
    handled,        \* how the handler ended
    erecord,        \* the record ToolExecutor.execute returned
    spawned,        \* subprocess.run was called
    \* ---- TinyMoA.chat ----
    cpc,            \* position inside TinyMoA.chat
    cin,            \* the request: what the user text and the retrieved material contain
    ctext,          \* what user_input contains after the reference material is appended
    invoked,        \* the components chat has called so far
    step_results,   \* step_results of the multi-step pipeline
    passed,         \* what the DIRECT step handed to integrate_response
    \* ---- Brain.route_pipeline ----
    ppc,            \* position inside Brain.route_pipeline
    pin,            \* the input: its keywords and the compound pattern it matches
    pipeline,       \* the returned list of steps
    \* ---- Brain.integrate_response ----
    ipc,            \* position inside Brain.integrate_response
    iin,            \* the upstream results and how specialist_output was built from them
    sections,       \* the sections parsed from specialist_output
    ireturn,        \* how the text was produced and the blocks it is made of
    \* ---- TranslationPipeline.from_english ----
    xpc,            \* position inside TranslationPipeline.from_english
    xin,            \* english_response
    xtext,          \* text_to_translate, then translated
    xout,           \* the returned text
    \* ---- run_cowork_flow: the persisted report ----
    spc,            \* position inside run_cowork_flow, as far as docs/cowork_result.md goes
    swriters,       \* the writer tasks of the plan still to run (their target files)
    swrites,        \* the writes to the workspace during the call, in order
    sreport,        \* final_report
    \* ---- Brain.decompose_query ----
    dpc,            \* position inside Brain.decompose_query
    din,            \* user_input: its translation and whether it spells a Korean news word
    dentities,      \* entities
    dout,           \* the returned list
    \* ---- model handles: reset and completion calls ----
    mcur,           \* the method that is running (or none) and whether its reset is done
    mlog,           \* the resets and completions made on the model handles, in order
    \* ---- run_cowork_flow: setup, try body, except and finally ----
    fpc,            \* position inside run_cowork_flow
    fin,            \* use_tui and whether the goal names an attachment
    log_handler,    \* the FileHandler of this run: none, open or closed
    handlers,       \* handlers attached to the "cowork" logger
    self_dashboard, \* self.dashboard
    live,           \* the rich Live display: none, started or stopped
    critical,       \* records written with logger.critical
    exc,            \* exception being propagated, or "None"
    caller,         \* what the caller of run_cowork_flow received
    run_no,         \* number of calls of run_cowork_flow so far
    unclosed        \* FileHandlers of earlier calls that were never closed

coworkVars == <<pc, phase, use_tui, is_hybrid, plan, status, result, tpc, res,
                lock, completing, elapsed, late, final_results, results>>
toolVars   == <<hin, hpc, tool_name, arguments, calls, repairs, outcome,
               raw_result, corrected_args_str>>
routeVars  == <<rpc, user_input, decision>>
execVars   == <<epc, ecall, handled, erecord, spawned>>
chatVars == <<cpc, cin, ctext, invoked, step_results, passed>>
pipeVars == <<ppc, pin, pipeline>>
integVars == <<ipc, iin, sections, ireturn>>
transVars == <<xpc, xin, xtext, xout>>
saveVars == <<spc, swriters, swrites, sreport>>
decompVars == <<dpc, din, dentities, dout>>
hygVars == <<mcur, mlog>>
flowVars == <<fpc, fin, log_handler, handlers, self_dashboard, live, critical, exc, caller,
             run_no, unclosed>>
vars == <<coworkVars, toolVars, routeVars, execVars, chatVars, pipeVars, integVars, transVars, saveVars, decompVars, hygVars, flowVars>>

\* What the actions of one component leave alone.
notCowork == <<toolVars, routeVars, execVars, chatVars, pipeVars, integVars, transVars, saveVars, decompVars, hygVars, flowVars>>
notTool == <<coworkVars, routeVars, execVars, chatVars, pipeVars, integVars, transVars, saveVars, decompVars, hygVars, flowVars>>
notRoute == <<coworkVars, toolVars, execVars, chatVars, pipeVars, integVars, transVars, saveVars, decompVars, hygVars, flowVars>>
notExec == <<coworkVars, toolVars, routeVars, chatVars, pipeVars, integVars, transVars, saveVars, decompVars, hygVars, flowVars>>
notChat == <<coworkVars, toolVars, routeVars, execVars, pipeVars, integVars, transVars, saveVars, decompVars, hygVars, flowVars>>
notPipe == <<coworkVars, toolVars, routeVars, execVars, chatVars, integVars, transVars, saveVars, decompVars, hygVars, flowVars>>
notInteg == <<coworkVars, toolVars, routeVars, execVars, chatVars, pipeVars, transVars, saveVars, decompVars, hygVars, flowVars>>
notTrans == <<coworkVars, toolVars, routeVars, execVars, chatVars, pipeVars, integVars, saveVars, decompVars, hygVars, flowVars>>
notSave == <<coworkVars, toolVars, routeVars, execVars, chatVars, pipeVars, integVars, transVars, decompVars, hygVars, flowVars>>
notDecomp == <<coworkVars, toolVars, routeVars, execVars, chatVars, pipeVars, integVars, transVars, saveVars, hygVars, flowVars>>
notHyg == <<coworkVars, toolVars, routeVars, execVars, chatVars, pipeVars, integVars, transVars, saveVars, decompVars, flowVars>>
notFlow == <<coworkVars, toolVars, routeVars, execVars, chatVars, pipeVars, integVars, transVars, saveVars, decompVars, hygVars>>

(***************************************************************************)
(* Bounds of the model.                                                    *)
(***************************************************************************)
MaxTasks == 2
MaxArgs == 2
MaxWords == 3
MaxCmdLen == 4
MaxBackRef == 2
MaxItems == 2
MaxSections == 2
MaxPieces == 3
MaxWriters == 3
MaxQueryLen == 3
MaxCompletions == 3
MaxRuns == 2

(***************************************************************************)
(* Program constants.                                                      *)
(***************************************************************************)
MaxWorkers == 4

(***************************************************************************)
(*                       run_cowork_flow : data                            *)
(***************************************************************************)
\* Agent labels a plan can carry. The planner prompt offers tool, rag, brain
\* and office; the fast-track plans add writer.
AgentTypes == {"tool", "rag", "brain", "writer", "office"}

MainThread == <<"main", 0>>
PoolThread(i) == <<"pool", i>>

SeqsUpTo(S, n) == UNION {[1..k -> S] : k \in 0..n}

\* Plans of the non-hybrid branches: tasks_data is whatever the TOOL / DIRECT
\* decomposition, the fast-track summary or planner.create_plan produced.
PlainPlans == SeqsUpTo(AgentTypes, MaxTasks)

\* The fast-track plan when files are attached and no tool is needed.
ContextSummaryPlan == <<"brain", "writer">>

\* results.append("[CONTEXT FROM UPLOADED FILES]...") : the entry that is not
\* the block of a task.
ContextEntry == 0

\* Plans of the hybrid RAG+TOOL branch: one brain task, then tool tasks.
HybridPlans == {<<"brain">> \o p : p \in SeqsUpTo({"tool"}, MaxTasks - 1)}

Tasks == 1..Len(plan)

parallelizable == {i \in Tasks : plan[i] \in {"tool", "rag"}}
sequential == {i \in Tasks : plan[i] \in {"brain", "writer"}}

\* first_phase, second_phase = parallelizable, sequential, swapped when hybrid
first_phase_unswapped == IF is_hybrid THEN parallelizable ELSE sequential
first_phase == IF is_hybrid THEN sequential ELSE parallelizable
second_phase == IF is_hybrid THEN parallelizable ELSE sequential
PhaseTasks(ph) == IF ph = 1 THEN first_phase ELSE second_phase

\* len(phase) > 1 and all(t.agent_type in ["tool", "rag"] for t in phase)
RunsInParallel(S) ==
    /\ Cardinality(S) > 1
    /\ \A i \in S : plan[i] \in {"tool", "rag"}

Terminal == {"COMPLETED", "FAILED"}
Finished == {"done_ok", "done_exc"}

\* The thread that executes task i: a pool thread under run_tasks, the
\* orchestrator thread in a sequential loop.
ThreadOf(i) == IF pc = "par" THEN PoolThread(i) ELSE MainThread

\* str(res) / str(e): what is stored in task.result.
StrOf(r) == IF r = "empty" THEN "" ELSE r

\* Ascending list of the members of a set of task ids (queue order).
RECURSIVE InOrder(_)
InOrder(S) ==
    IF S = {} THEN <<>>
    ELSE LET m == CHOOSE x \in S : \A y \in S : x <= y
         IN <<m>> \o InOrder(S \ {m})

(***************************************************************************)
(*                 execute_single_task : status changes                    *)
(***************************************************************************)
\* task.status = TaskStatus.RUNNING, done only when the dashboard is on.
MarkRunning(st, i) == IF use_tui THEN [st EXCEPT ![i] = "RUNNING"] ELSE st

MarkCompleted(st, i) == [st EXCEPT ![i] = "COMPLETED"]

FailTaskAll(st, i) == [j \in DOMAIN st |-> "FAILED"]
\* except Exception as e: task.status = TaskStatus.FAILED
FailTask(st, i) == [st EXCEPT ![i] = "FAILED"]

(***************************************************************************)
(*                     ParallelRunner.run_tasks                            *)
(***************************************************************************)
TaskResultSuccess(i, how) ==
    [task_id |-> i, success |-> TRUE, result |-> res[i], error |-> "None"]
\* as_completed() hands over finished futures only, so future.result(timeout=60)
\* returns or raises at once: the TimeoutError handler is never entered and the
\* record depends only on how the task's own execution ended.
TaskResultOf(i, how) ==
    IF how = "done_ok"
    THEN [task_id |-> i, success |-> TRUE, result |-> res[i], error |-> "None"]
    ELSE [task_id |-> i, success |-> FALSE, result |-> "None", error |-> StrOf(res[i])]

TimeoutRecord(i) ==
    [task_id |-> i, success |-> FALSE, result |-> "None",
     error |-> "Task timed out after 60s"]

(***************************************************************************)
(*                 Idle values of the other components                     *)
(***************************************************************************)
CoworkIdle ==
    /\ pc = "off" /\ phase = 1 /\ use_tui = FALSE /\ is_hybrid = FALSE
    /\ plan = <<>> /\ status = <<>> /\ result = <<>> /\ tpc = <<>> /\ res = <<>>
    /\ lock = {} /\ completing = {} /\ elapsed = FALSE /\ late = <<>>
    /\ final_results = <<>> /\ results = <<>>

ToolIdle ==
    /\ hin = <<>> /\ hpc = "off" /\ tool_name = "" /\ arguments = {} /\ calls = <<>>
    /\ repairs = 0 /\ outcome = "none"
    /\ raw_result = <<>> /\ corrected_args_str = "none"

RouteIdle ==
    /\ rpc = "off" /\ user_input = {} /\ decision = <<>>

ExecIdle ==
    /\ epc = "off" /\ ecall = <<>> /\ handled = "none" /\ erecord = <<>>
    /\ spawned = FALSE

ChatIdle ==
    /\ cpc = "off" /\ cin = <<>> /\ ctext = {} /\ invoked = {}
    /\ step_results = <<>> /\ passed = <<>>

PipeIdle ==
    /\ ppc = "off" /\ pin = <<>> /\ pipeline = <<>>

IntegIdle ==
    /\ ipc = "off" /\ iin = <<>> /\ sections = <<>> /\ ireturn = <<>>

TransIdle ==
    /\ xpc = "off" /\ xin = <<>> /\ xtext = <<>> /\ xout = <<>>

SaveIdle ==
    /\ spc = "off" /\ swriters = <<>> /\ swrites = <<>> /\ sreport = ""

DecompIdle ==
    /\ dpc = "off" /\ din = <<>> /\ dentities = <<>> /\ dout = <<>>

HygIdle ==
    /\ mcur = <<>> /\ mlog = <<>>

FlowIdle ==
    fpc = "idle" /\ fin = [use_tui |-> FALSE, attachment |-> FALSE] /\ log_handler = "none" /\ handlers = {} /\ self_dashboard = "None" /\ live = "none" /\ critical = <<>> /\ exc = "None" /\ caller = [kind |-> "none", exc |-> "None"] /\ run_no = 0 /\ unclosed = 0

NotCoworkIdle == ToolIdle /\ RouteIdle /\ ExecIdle /\ ChatIdle /\ PipeIdle /\ IntegIdle /\ TransIdle /\ SaveIdle /\ DecompIdle /\ HygIdle /\ FlowIdle
NotToolIdle == CoworkIdle /\ RouteIdle /\ ExecIdle /\ ChatIdle /\ PipeIdle /\ IntegIdle /\ TransIdle /\ SaveIdle /\ DecompIdle /\ HygIdle /\ FlowIdle
NotRouteIdle == CoworkIdle /\ ToolIdle /\ ExecIdle /\ ChatIdle /\ PipeIdle /\ IntegIdle /\ TransIdle /\ SaveIdle /\ DecompIdle /\ HygIdle /\ FlowIdle
NotExecIdle == CoworkIdle /\ ToolIdle /\ RouteIdle /\ ChatIdle /\ PipeIdle /\ IntegIdle /\ TransIdle /\ SaveIdle /\ DecompIdle /\ HygIdle /\ FlowIdle
NotChatIdle == CoworkIdle /\ ToolIdle /\ RouteIdle /\ ExecIdle /\ PipeIdle /\ IntegIdle /\ TransIdle /\ SaveIdle /\ DecompIdle /\ HygIdle /\ FlowIdle
NotPipeIdle == CoworkIdle /\ ToolIdle /\ RouteIdle /\ ExecIdle /\ ChatIdle /\ IntegIdle /\ TransIdle /\ SaveIdle /\ DecompIdle /\ HygIdle /\ FlowIdle
NotIntegIdle == CoworkIdle /\ ToolIdle /\ RouteIdle /\ ExecIdle /\ ChatIdle /\ PipeIdle /\ TransIdle /\ SaveIdle /\ DecompIdle /\ HygIdle /\ FlowIdle
NotTransIdle == CoworkIdle /\ ToolIdle /\ RouteIdle /\ ExecIdle /\ ChatIdle /\ PipeIdle /\ IntegIdle /\ SaveIdle /\ DecompIdle /\ HygIdle /\ FlowIdle
NotSaveIdle == CoworkIdle /\ ToolIdle /\ RouteIdle /\ ExecIdle /\ ChatIdle /\ PipeIdle /\ IntegIdle /\ TransIdle /\ DecompIdle /\ HygIdle /\ FlowIdle
NotDecompIdle == CoworkIdle /\ ToolIdle /\ RouteIdle /\ ExecIdle /\ ChatIdle /\ PipeIdle /\ IntegIdle /\ TransIdle /\ SaveIdle /\ HygIdle /\ FlowIdle
NotHygIdle == CoworkIdle /\ ToolIdle /\ RouteIdle /\ ExecIdle /\ ChatIdle /\ PipeIdle /\ IntegIdle /\ TransIdle /\ SaveIdle /\ DecompIdle /\ FlowIdle
NotFlowIdle == CoworkIdle /\ ToolIdle /\ RouteIdle /\ ExecIdle /\ ChatIdle /\ PipeIdle /\ IntegIdle /\ TransIdle /\ SaveIdle /\ DecompIdle /\ HygIdle

(***************************************************************************)
(*                    run_cowork_flow : orchestrator                       *)
(***************************************************************************)
CoworkInit ==
    /\ pc = "route" /\ phase = 1
    /\ use_tui \in BOOLEAN
    /\ is_hybrid = FALSE
    /\ plan = <<>> /\ status = <<>> /\ result = <<>> /\ tpc = <<>> /\ res = <<>>
    /\ lock = {} /\ completing = {} /\ elapsed = FALSE /\ late = <<>>
    /\ final_results = <<>> /\ results = <<>>
    /\ NotCoworkIdle

\* route_data = self.brain.route(user_goal): answered by the keyword fast path,
\* or by a completion of the Brain model made without the model lock.
CoworkRoute ==
    /\ pc = "route"
    /\ \/ /\ pc' = "plan"
          /\ UNCHANGED completing
       \/ /\ pc' = "route_llm"
          /\ completing' = completing \cup {MainThread}
    /\ UNCHANGED <<phase, use_tui, is_hybrid, plan, status, result, tpc, res,
                   lock, elapsed, late, final_results, results>>
    /\ UNCHANGED notCowork

CoworkRouteEnd ==
    /\ pc = "route_llm"
    /\ completing' = completing \ {MainThread}
    /\ pc' = "plan"
    /\ UNCHANGED <<phase, use_tui, is_hybrid, plan, status, result, tpc, res,
                   lock, elapsed, late, final_results, results>>
    /\ UNCHANGED notCowork

\* "1. Plan": tasks_data is built by one of the branches and every entry is
\* added to the queue as a PENDING task with an empty result.
CreatePlan ==
    /\ pc = "plan"
    /\ \E h \in BOOLEAN :
         \E p \in (IF h THEN HybridPlans ELSE PlainPlans) :
            /\ is_hybrid' = h
            /\ \E rag_context \in BOOLEAN :
                 /\ h => rag_context
                 /\ (rag_context /\ ~h) => p = ContextSummaryPlan
                 /\ results' = IF rag_context THEN <<ContextEntry>> ELSE <<>>
            /\ plan' = p
            /\ status' = [i \in 1..Len(p) |-> "PENDING"]
            /\ result' = [i \in 1..Len(p) |-> ""]
            /\ tpc' = [i \in 1..Len(p) |-> "idle"]
            /\ res' = [i \in 1..Len(p) |-> "none"]
            /\ late' = [i \in 1..Len(p) |-> FALSE]
    /\ pc' = "start" /\ phase' = 1
    /\ UNCHANGED <<use_tui, lock, completing, elapsed, final_results>>
    /\ UNCHANGED notCowork

\* "Run first phase tasks" / "Run second phase tasks": nothing to run, submit
\* the phase to the ParallelRunner, or enter the sequential loop.
StartPhase ==
    /\ pc = "start"
    /\ LET S == PhaseTasks(phase) IN
         IF S = {}
         THEN /\ pc' = "collect"
              /\ UNCHANGED <<tpc, final_results, elapsed>>
         ELSE IF RunsInParallel(S)
         THEN /\ pc' = "par"
              /\ tpc' = [i \in Tasks |-> IF i \in S THEN "queued" ELSE tpc[i]]
              /\ final_results' = <<>>
              /\ elapsed' = FALSE
         ELSE /\ pc' = "seq"
              /\ UNCHANGED <<tpc, final_results, elapsed>>
    /\ UNCHANGED <<phase, use_tui, is_hybrid, plan, status, result, res,
                   lock, completing, late, results>>
    /\ UNCHANGED notCowork

\* The wall clock passes 60 s while the runner waits for the pool.
Tick60 ==
    /\ pc = "par"
    /\ ~elapsed
    /\ \E i \in PhaseTasks(phase) : tpc[i] \notin Finished
    /\ elapsed' = TRUE
    /\ UNCHANGED <<pc, phase, use_tui, is_hybrid, plan, status, result, tpc, res,
                   lock, completing, late, final_results, results>>
    /\ UNCHANGED notCowork

\* for future in as_completed(future_to_task): one finished future is taken and
\* its TaskResult is stored under the task's id.
RunnerRecord(i) ==
    /\ pc = "par"
    /\ i \in PhaseTasks(phase)
    /\ tpc[i] \in Finished
    /\ i \notin DOMAIN final_results
    /\ final_results' = (i :> TaskResultOf(i, tpc[i])) @@ final_results
    /\ UNCHANGED <<pc, phase, use_tui, is_hybrid, plan, status, result, tpc, res,
                   lock, completing, elapsed, late, results>>
    /\ UNCHANGED notCowork

\* return final_results: as_completed is exhausted when every future is done.
RunnerReturn ==
    /\ pc = "par"
    /\ DOMAIN final_results = PhaseTasks(phase)
    /\ pc' = "collect"
    /\ UNCHANGED <<phase, use_tui, is_hybrid, plan, status, result, tpc, res,
                   lock, completing, elapsed, late, final_results, results>>
    /\ UNCHANGED notCowork

\* for t in phase: execute_single_task(t) -- the loop ends normally.
SeqDone ==
    /\ pc = "seq"
    /\ \A i \in PhaseTasks(phase) : tpc[i] = "done_ok"
    /\ pc' = "collect"
    /\ UNCHANGED <<phase, use_tui, is_hybrid, plan, status, result, tpc, res,
                   lock, completing, elapsed, late, final_results, results>>
    /\ UNCHANGED notCowork

\* execute_single_task re-raises; in the sequential loop nothing catches it
\* before the outer "except Exception as e: ... raise e".
SeqRaise ==
    /\ pc = "seq"
    /\ \E i \in PhaseTasks(phase) : tpc[i] = "done_exc"
    /\ pc' = "raised"
    /\ UNCHANGED <<phase, use_tui, is_hybrid, plan, status, result, tpc, res,
                   lock, completing, elapsed, late, final_results, results>>
    /\ UNCHANGED notCowork

\* "Update results after ... phase": one block per COMPLETED task of the
\* phase, in queue order.
Collect ==
    /\ pc = "collect"
    /\ results' = results \o
                  InOrder({i \in PhaseTasks(phase) : status[i] = "COMPLETED"})
    /\ IF phase = 1
       THEN pc' = "start" /\ phase' = 2
       ELSE pc' = "integrate" /\ phase' = phase
    /\ UNCHANGED <<use_tui, is_hybrid, plan, status, result, tpc, res,
                   lock, completing, elapsed, late, final_results>>
    /\ UNCHANGED notCowork

effective_results_tail == IF results = <<>> THEN <<>> ELSE Tail(results)

\* effective_results: the context entry is dropped when it is followed by
\* the block of some task.
effective_results ==
    IF /\ Len(results) > 1 /\ results[1] = ContextEntry
       /\ \E k \in 2..Len(results) : results[k] # ContextEntry
    THEN Tail(results)
    ELSE results

\* with self._model_lock: final_report = self.brain.integrate_response(...)
Integrate ==
    /\ pc = "integrate"
    /\ lock = {}
    /\ lock' = {MainThread}
    /\ completing' = completing \cup {MainThread}
    /\ pc' = "integrating"
    /\ UNCHANGED <<phase, use_tui, is_hybrid, plan, status, result, tpc, res,
                   elapsed, late, final_results, results>>
    /\ UNCHANGED notCowork

IntegrateEnd ==
    /\ pc = "integrating"
    /\ lock' = lock \ {MainThread}
    /\ completing' = completing \ {MainThread}
    /\ pc' = "returned"
    /\ UNCHANGED <<phase, use_tui, is_hybrid, plan, status, result, tpc, res,
                   elapsed, late, final_results, results>>
    /\ UNCHANGED notCowork

(***************************************************************************)
(*                        execute_single_task                              *)
(***************************************************************************)
\* Tasks of the pool that a worker thread is running.
Running == {j \in Tasks : tpc[j] \notin {"idle", "queued", "done_ok", "done_exc"}}

\* A pool thread picks the submitted task up, or the sequential loop reaches
\* it; with the dashboard on the task is marked RUNNING.
ExecStart(i) ==
    /\ i \in PhaseTasks(phase)
    /\ IF pc = "par"
       THEN tpc[i] = "queued" /\ Cardinality(Running) < MaxWorkers
       ELSE /\ pc = "seq"
            /\ tpc[i] = "idle"
            /\ \A j \in PhaseTasks(phase) : j < i => tpc[j] = "done_ok"
    /\ status' = MarkRunning(status, i)
    /\ tpc' = [tpc EXCEPT ![i] = "work"]
    /\ UNCHANGED <<pc, phase, use_tui, is_hybrid, plan, result, res,
                   lock, completing, elapsed, late, final_results, results>>
    /\ UNCHANGED notCowork

\* agent_type == "tool": ToolWorker.execute calls ToolExecutor.execute, which
\* returns a success or a failure record and never raises; a record with a
\* "result" key is replaced by that payload.
ToolWorkerRun(i) ==
    /\ tpc[i] = "work" /\ plan[i] = "tool"
    /\ \E r \in {"payload", "failure_record"} :
         res' = [res EXCEPT ![i] = r]
    /\ tpc' = [tpc EXCEPT ![i] = "got"]
    /\ UNCHANGED <<pc, phase, use_tui, is_hybrid, plan, status, result,
                   lock, completing, elapsed, late, final_results, results>>
    /\ UNCHANGED notCowork

\* agent_type == "rag": ResearchWorker.execute -> TinyMoA.chat.
\* pipeline = self.brain.route_pipeline(...): a compound pattern or the keyword
\* fast path of Brain.route answers without the model; otherwise Brain.route
\* runs a completion. chat holds no lock around this call.
ChatRoutePipeline(i) ==
    /\ tpc[i] = "work" /\ plan[i] = "rag"
    /\ \/ /\ tpc' = [tpc EXCEPT ![i] = "chat_main"]
          /\ UNCHANGED completing
       \/ /\ tpc' = [tpc EXCEPT ![i] = "pipe_llm"]
          /\ completing' = completing \cup {ThreadOf(i)}
    /\ UNCHANGED <<pc, phase, use_tui, is_hybrid, plan, status, result, res,
                   lock, elapsed, late, final_results, results>>
    /\ UNCHANGED notCowork

ChatRoutePipelineEnd(i) ==
    /\ tpc[i] = "pipe_llm"
    /\ completing' = completing \ {ThreadOf(i)}
    /\ \E ok \in BOOLEAN :
         /\ tpc' = [tpc EXCEPT ![i] = IF ok THEN "chat_main" ELSE "exc"]
         /\ res' = [res EXCEPT ![i] = IF ok THEN @ ELSE "error"]
    /\ UNCHANGED <<pc, phase, use_tui, is_hybrid, plan, status, result,
                   lock, elapsed, late, final_results, results>>
    /\ UNCHANGED notCowork

\* if rag_context: route = "DIRECT" -- the routing call is skipped.
ChatForceDirect(i) ==
    /\ tpc[i] = "chat_main"
    /\ tpc' = [tpc EXCEPT ![i] = "chat_respond"]
    /\ UNCHANGED <<pc, phase, use_tui, is_hybrid, plan, status, result, res,
                   lock, completing, elapsed, late, final_results, results>>
    /\ UNCHANGED notCowork

\* with self._model_lock: route_result = self.brain.route(processed_input)
ChatRouteLocked(i) ==
    /\ tpc[i] = "chat_main"
    /\ lock = {}
    /\ lock' = {ThreadOf(i)}
    /\ completing' = completing \cup {ThreadOf(i)}
    /\ tpc' = [tpc EXCEPT ![i] = "route_locked"]
    /\ UNCHANGED <<pc, phase, use_tui, is_hybrid, plan, status, result, res,
                   elapsed, late, final_results, results>>
    /\ UNCHANGED notCowork

ChatRouteUnlockKeeps(i) ==
    /\ tpc[i] = "route_locked"
    /\ completing' = completing \ {ThreadOf(i)}
    /\ \E ok \in BOOLEAN :
         /\ lock' = IF ok THEN lock \ {ThreadOf(i)} ELSE lock
         /\ tpc' = [tpc EXCEPT ![i] = IF ok THEN "chat_respond" ELSE "exc"]
         /\ res' = [res EXCEPT ![i] = IF ok THEN @ ELSE "error"]
    /\ UNCHANGED <<pc, phase, use_tui, is_hybrid, plan, status, result,
                   elapsed, late, final_results, results>>
    /\ UNCHANGED notCowork

\* Leaving the with block releases the lock, whether brain.route returned
\* or raised.
ChatRouteUnlock(i) ==
    /\ tpc[i] = "route_locked"
    /\ lock' = lock \ {ThreadOf(i)}
    /\ completing' = completing \ {ThreadOf(i)}
    /\ \E ok \in BOOLEAN :
         /\ tpc' = [tpc EXCEPT ![i] = IF ok THEN "chat_respond" ELSE "exc"]
         /\ res' = [res EXCEPT ![i] = IF ok THEN @ ELSE "error"]
    /\ UNCHANGED <<pc, phase, use_tui, is_hybrid, plan, status, result,
                   elapsed, late, final_results, results>>
    /\ UNCHANGED notCowork

\* with self._model_lock: the answer of the selected route (direct_respond,
\* reasoner.solve, or the model calls of _handle_tool_call).
ChatRespondLocked(i) ==
    /\ tpc[i] = "chat_respond"
    /\ lock = {}
    /\ lock' = {ThreadOf(i)}
    /\ completing' = completing \cup {ThreadOf(i)}
    /\ tpc' = [tpc EXCEPT ![i] = "respond_locked"]
    /\ UNCHANGED <<pc, phase, use_tui, is_hybrid, plan, status, result, res,
                   elapsed, late, final_results, results>>
    /\ UNCHANGED notCowork

ChatRespondUnlock(i) ==
    /\ tpc[i] = "respond_locked"
    /\ lock' = lock \ {ThreadOf(i)}
    /\ completing' = completing \ {ThreadOf(i)}
    /\ \E r \in {"text", "empty", "error"} :
         /\ tpc' = [tpc EXCEPT ![i] = IF r = "error" THEN "exc" ELSE "got"]
         /\ res' = [res EXCEPT ![i] = r]
    /\ UNCHANGED <<pc, phase, use_tui, is_hybrid, plan, status, result,
                   elapsed, late, final_results, results>>
    /\ UNCHANGED notCowork

\* agent_type "brain" / "writer": BrainWorker.execute and WriterWorker.execute
\* call self.brain.direct_respond directly, without the model lock.
BrainRespond(i) ==
    /\ tpc[i] = "work" /\ plan[i] \in {"brain", "writer"}
    /\ completing' = completing \cup {ThreadOf(i)}
    /\ tpc' = [tpc EXCEPT ![i] = "direct_llm"]
    /\ UNCHANGED <<pc, phase, use_tui, is_hybrid, plan, status, result, res,
                   lock, elapsed, late, final_results, results>>
    /\ UNCHANGED notCowork

\* BrainWorker returns the model's text; WriterWorker returns "Saved to ...".
BrainRespondEnd(i) ==
    /\ tpc[i] = "direct_llm"
    /\ completing' = completing \ {ThreadOf(i)}
    /\ \E r \in (IF plan[i] = "writer" THEN {"saved", "error"}
                 ELSE {"text", "empty", "error"}) :
         /\ tpc' = [tpc EXCEPT ![i] = IF r = "error" THEN "exc" ELSE "got"]
         /\ res' = [res EXCEPT ![i] = r]
    /\ UNCHANGED <<pc, phase, use_tui, is_hybrid, plan, status, result,
                   lock, elapsed, late, final_results, results>>
    /\ UNCHANGED notCowork

\* task.result = str(res)
SetResult(i) ==
    /\ tpc[i] = "got"
    /\ result' = [result EXCEPT ![i] = StrOf(res[i])]
    /\ tpc' = [tpc EXCEPT ![i] = "res_set"]
    /\ UNCHANGED <<pc, phase, use_tui, is_hybrid, plan, status, res,
                   lock, completing, elapsed, late, final_results, results>>
    /\ UNCHANGED notCowork

\* task.status = TaskStatus.COMPLETED; return res
SetCompleted(i) ==
    /\ tpc[i] = "res_set"
    /\ status' = MarkCompleted(status, i)
    /\ tpc' = [tpc EXCEPT ![i] = "done_ok"]
    /\ late' = [late EXCEPT ![i] = elapsed]
    /\ UNCHANGED <<pc, phase, use_tui, is_hybrid, plan, result, res,
                   lock, completing, elapsed, final_results, results>>
    /\ UNCHANGED notCowork

\* except Exception as e: task.status = TaskStatus.FAILED
SetFailed(i) ==
    /\ tpc[i] = "exc"
    /\ status' = FailTask(status, i)
    /\ tpc' = [tpc EXCEPT ![i] = "failed_set"]
    /\ UNCHANGED <<pc, phase, use_tui, is_hybrid, plan, result, res,
                   lock, completing, elapsed, late, final_results, results>>
    /\ UNCHANGED notCowork

\* task.result = str(e); raise e
SetFailResult(i) ==
    /\ tpc[i] = "failed_set"
    /\ result' = [result EXCEPT ![i] = StrOf(res[i])]
    /\ tpc' = [tpc EXCEPT ![i] = "done_exc"]
    /\ late' = [late EXCEPT ![i] = elapsed]
    /\ UNCHANGED <<pc, phase, use_tui, is_hybrid, plan, status, res,
                   lock, completing, elapsed, final_results, results>>
    /\ UNCHANGED notCowork

CoworkNext ==
    \/ CoworkRoute \/ CoworkRouteEnd \/ CreatePlan \/ StartPhase \/ Tick60
    \/ RunnerReturn \/ SeqDone \/ SeqRaise \/ Collect
    \/ Integrate \/ IntegrateEnd
    \/ \E i \in Tasks : RunnerRecord(i)
    \/ \E i \in Tasks : ExecStart(i)
    \/ \E i \in Tasks : ToolWorkerRun(i)
    \/ \E i \in Tasks : ChatRoutePipeline(i)
    \/ \E i \in Tasks : ChatRoutePipelineEnd(i)
    \/ \E i \in Tasks : ChatForceDirect(i)
    \/ \E i \in Tasks : ChatRouteLocked(i)
    \/ \E i \in Tasks : ChatRouteUnlock(i)
    \/ \E i \in Tasks : ChatRespondLocked(i)
    \/ \E i \in Tasks : ChatRespondUnlock(i)
    \/ \E i \in Tasks : BrainRespond(i)
    \/ \E i \in Tasks : BrainRespondEnd(i)
    \/ \E i \in Tasks : SetResult(i)
    \/ \E i \in Tasks : SetCompleted(i)
    \/ \E i \in Tasks : SetFailed(i)
    \/ \E i \in Tasks : SetFailResult(i)

SpecCowork == CoworkInit /\ [][CoworkNext]_vars

\* The threads are scheduled by the operating system and every call made
\* by a thread returns or raises: a run does not stop while a step is
\* possible.
SpecCoworkFair == SpecCowork /\ WF_vars(CoworkNext)

(***************************************************************************)
(*                      run_cowork_flow : properties                       *)
(***************************************************************************)
\* C1: no two model completion calls execute concurrently, in any plan --
\* also in a parallel phase with two or more research tasks.
C1_NoConcurrentCompletions == Cardinality(completing) <= 1

RecordOf(fr, j) == IF j \in DOMAIN fr THEN fr[j] ELSE <<>>

\* A step of task i in a parallel phase -- its failure and its late finish
\* included -- leaves every sibling's status, result, position and record alone.
C2_Step ==
    pc = "par" =>
        \A i \in PhaseTasks(phase) :
            tpc'[i] # tpc[i] =>
                \A j \in Tasks \ {i} :
                    /\ status'[j] = status[j]
                    /\ result'[j] = result[j]
                    /\ tpc'[j] = tpc[j]
                    /\ RecordOf(final_results', j) = RecordOf(final_results, j)

\* When run_tasks returns, every task of the phase reached its own terminal
\* status and its record tells how its own execution ended.
C2_Return ==
    (pc = "par" /\ pc' = "collect") =>
        \A j \in PhaseTasks(phase) :
            /\ j \in DOMAIN final_results
            /\ status[j] \in Terminal
            /\ final_results[j].success = (status[j] = "COMPLETED")
            /\ final_results[j].success => final_results[j].result = res[j]
            /\ ~final_results[j].success => final_results[j].error = result[j]

\* C2: in a parallel phase, a task that fails or takes more than 60 s never
\* changes the status, the result or the TaskResult of a sibling; every sibling
\* reaches its own terminal status and run_tasks returns the sibling's own record.
C2_TimeoutIsolation == [][C2_Step /\ C2_Return]_vars

\* A parallel phase has returned: one task failed after the 60 s, its sibling
\* completed and was recorded as a success.
C2_Witness ==
    /\ pc = "collect"
    /\ RunsInParallel(PhaseTasks(phase))
    /\ \E i, j \in PhaseTasks(phase) :
         /\ i # j
         /\ status[i] = "FAILED" /\ late[i]
         /\ status[j] = "COMPLETED" /\ final_results[j].success

\* C27: when run_tasks has returned, every submitted task has finished and
\* the mapping holds one TaskResult per submitted id: success with the
\* task's return value, or failure with an error string and no result.
C27_RunTasksComplete ==
    (pc = "collect" /\ RunsInParallel(PhaseTasks(phase))) =>
        /\ DOMAIN final_results = PhaseTasks(phase)
        /\ \A i \in PhaseTasks(phase) :
              /\ tpc[i] \in Finished
              /\ final_results[i].task_id = i
              /\ final_results[i].success <=> tpc[i] = "done_ok"
              /\ IF final_results[i].success
                 THEN final_results[i].result = res[i]
                 ELSE /\ final_results[i].result = "None"
                      /\ final_results[i].error = StrOf(res[i])

\* run_tasks returned one success and one failure.
C27_Witness ==
    /\ pc = "collect" /\ RunsInParallel(PhaseTasks(phase))
    /\ \E i, j \in DOMAIN final_results :
         final_results[i].success /\ ~final_results[j].success

\* Thread t stands at a "with self._model_lock:" statement.
AtWith(t) ==
    \/ t = MainThread /\ pc = "integrate"
    \/ \E i \in Tasks :
          ThreadOf(i) = t /\ tpc[i] \in {"chat_main", "chat_respond"}

\* Thread t is inside the block of a "with self._model_lock:" statement.
InWith(t) ==
    \/ t = MainThread /\ pc = "integrating"
    \/ \E i \in Tasks :
          ThreadOf(i) = t /\ tpc[i] \in {"route_locked", "respond_locked"}

\* C29: a thread that holds the model lock is inside a with block and never
\* stands at another acquisition; the lock has at most one holder; and no
\* thread, orchestrator or pool, stays at an acquisition forever.
C29_LockDiscipline ==
    /\ [](\A t \in lock : InWith(t) /\ ~AtWith(t))
    /\ [](Cardinality(lock) <= 1)
    /\ \A t \in {MainThread} \cup {PoolThread(i) : i \in 1..MaxTasks} :
          []<>(~AtWith(t))

\* A pool thread holds the lock while another one waits for it.
C29_Witness ==
    /\ pc = "par"
    /\ \E i, j \in Tasks :
         /\ i # j
         /\ lock = {PoolThread(i)} /\ tpc[i] = "route_locked"
         /\ tpc[j] \in {"chat_main", "chat_respond"}

\* The "[TASK: ...] DATA: ..." blocks of a list of entries.
TaskBlocks(entries) == SelectSeq(entries, LAMBDA x : x # ContextEntry)

CompletedOf(S) == {i \in S : status[i] = "COMPLETED"}

C3_TimeoutReported ==
    \A i \in DOMAIN final_results :
        late[i] => final_results[i] = TimeoutRecord(i)

\* C7: a task's status changes only PENDING -> RUNNING -> COMPLETED or FAILED.
C7_StatusLifecycle ==
    [][\A i \in Tasks :
          \/ status'[i] = status[i]
          \/ <<status[i], status'[i]>> \in
                {<<"PENDING", "RUNNING">>, <<"RUNNING", "COMPLETED">>,
                 <<"RUNNING", "FAILED">>}]_vars

\* C8: in every reachable state a task's result is non-empty iff its status is
\* COMPLETED or FAILED.
C8_ResultIffTerminal ==
    \A i \in Tasks : (result[i] # "") <=> (status[i] \in Terminal)

\* C9: no queued task is still PENDING when the final integration runs.
C9_NoPendingAtIntegration ==
    pc \in {"integrate", "integrating", "returned"} =>
        \A i \in Tasks : status[i] # "PENDING"

\* C10: a task that ends FAILED never makes run_cowork_flow raise.
C10_FailedTaskNeverRaises ==
    ~(pc = "raised" /\ \E i \in Tasks : status[i] = "FAILED")

\* Tasks that a pool thread or the sequential loop has been given.
Started == {i \in Tasks : tpc[i] # "idle"}

C19_WitnessPlain ==
    /\ ~is_hybrid /\ parallelizable # {}
    /\ \E i \in Started \cap sequential : tpc[i] = "work"

\* C20: a tool task whose tool invocation failed does not end COMPLETED.
C20_FailedToolNotCompleted ==
    \A i \in Tasks :
        (plan[i] = "tool" /\ res[i] = "failure_record") => status[i] # "COMPLETED"

(***************************************************************************)
(*                 Tool registry (tools/schema.py TOOLS)                   *)
(***************************************************************************)
ToolNames == {"get_weather", "search_web", "calculate", "get_current_time",
              "search_news", "search_wikipedia", "read_url", "execute_command"}

\* parameters.properties of each tool
Properties(t) ==
    CASE t = "get_weather"      -> {"location", "unit"}
      [] t = "search_web"       -> {"query", "num_results"}
      [] t = "calculate"        -> {"expression"}
      [] t = "get_current_time" -> {"timezone"}
      [] t = "search_news"      -> {"query", "num_results"}
      [] t = "search_wikipedia" -> {"query", "lang"}
      [] t = "read_url"         -> {"url", "max_chars"}
      [] t = "execute_command"  -> {"command", "timeout"}
      [] OTHER                  -> {}

\* parameters.required of each tool
Required(t) ==
    CASE t = "get_weather"      -> {"location"}
      [] t = "search_web"       -> {"query"}
      [] t = "calculate"        -> {"expression"}
      [] t = "get_current_time" -> {}
      [] t = "search_news"      -> {"query"}
      [] t = "search_wikipedia" -> {"query"}
      [] t = "read_url"         -> {"url"}
      [] t = "execute_command"  -> {"command"}
      [] OTHER                  -> {}

\* validate_tool_call: the tool exists and every required parameter is given
\* (argument names foreign to the schema are not looked at).
validate_tool_call(name, args) ==
    name \in ToolNames /\ Required(name) \subseteq args

NoCall == [error |-> TRUE, name |-> "", arguments |-> {}]
Call(n, a) == [error |-> FALSE, name |-> n, arguments |-> a]

(***************************************************************************)
(*                         _handle_tool_call                               *)
(***************************************************************************)
\* "1. Brain optimised arguments": the arguments built from arg_hint. hint is
\* "none" (empty), "plain", or "natural" (an instruction sentence or Korean
\* text, which execute_command refuses).
ArgsFromHint(tool_hint, hint) ==
    IF hint = "none" \/ tool_hint = "" THEN {}
    ELSE CASE tool_hint \in {"search_web", "search_news", "search_wikipedia"}
                -> {"query"}
           [] tool_hint = "execute_command"
                -> IF hint = "natural" THEN {} ELSE {"command"}
           [] tool_hint = "get_weather"      -> {"location"}
           [] tool_hint = "get_current_time" -> {"timezone"}
           [] tool_hint = "calculate"        -> {"expression"}
           [] tool_hint = "read_url"         -> {"url"}
           [] OTHER                          -> {}

\* _infer_tool_from_keywords: kw is the keyword class the text falls in.
InferToolFromKeywords(kw, tool_hint) ==
    CASE tool_hint = "get_weather"      -> Call("get_weather", {"location"})
      [] tool_hint = "search_web"       -> Call("search_web", {"query"})
      [] tool_hint = "get_current_time" -> Call("get_current_time", {"timezone"})
      [] tool_hint = "calculate"        -> Call("calculate", {"expression"})
      [] OTHER ->
           CASE kw = "weather" -> Call("get_weather", {"location"})
             [] kw = "command" -> Call("execute_command", {"command"})
             [] kw = "search"  -> Call("search_web", {"query"})
             [] kw = "time"    -> Call("get_current_time", {"timezone"})
             [] OTHER          -> NoCall

\* "[Critical Fix] Validate arguments": location -> query for the searches,
\* query -> location for get_weather.
RepairArguments(name, args) ==
    IF name \in {"search_web", "search_news"} /\ "location" \in args
       /\ "query" \notin args
    THEN (args \ {"location"}) \cup {"query"}
    ELSE IF name = "get_weather" /\ "query" \in args /\ "location" \notin args
    THEN (args \ {"query"}) \cup {"location"}
    ELSE args

\* What ToolExecutor.execute can report for a call: "fail" is success=False (an
\* unknown tool, or the handler raised -- it does when a required parameter is
\* missing), "ok" is success=True, "soft" is success=True with an error marker
\* in the payload.
ExecReports(name, args) ==
    IF name \notin ToolNames \/ ~(Required(name) \subseteq args)
    THEN {"fail"}
    ELSE {"ok", "soft", "fail"}

\* pattern in text
OccursIn(pattern, text) ==
    \E off \in 0..(Len(text) - Len(pattern)) :
        \A k \in 1..Len(pattern) : text[off + k] = pattern[k]

\* Payload texts of a success=True result, as words.
PayloadTexts ==
    {<<"sunny">>, <<"TIMEOUT">>, <<"rate", "limit">>, <<"http", "404">>,
     <<"404", "not", "found">>, <<"error", "500">>, <<"Traceback">>}

\* raw_result = str(result.get("result", "")).lower()
LowerText(text) ==
    [k \in DOMAIN text |->
       CASE text[k] = "TIMEOUT"   -> "timeout"
         [] text[k] = "Traceback" -> "traceback"
         [] OTHER                 -> text[k]]

error_keywords ==
    {<<"timeout">>, <<"timed", "out">>, <<"rate", "limit">>, <<"api", "error">>,
     <<"access", "denied">>, <<"404", "not", "found">>,
     <<"500", "internal", "server", "error">>, <<"traceback">>}

\* for keyword in error_keywords: if keyword in raw_result
SemanticError(text) ==
    \E keyword \in error_keywords : OccursIn(keyword, LowerText(text))

\* "if 'retry' not in arguments": may a repair round start for these arguments?
MayRepair(args) == "retry" \notin args

\* retry_args = json.loads(corrected_args_str); retry_args["retry"] = True
RetryArgs(corrected) == corrected \cup {"retry"}

AfterRetryLoops(ok) == IF ok THEN "return_ok" ELSE "repair"
\* After the retry: a success is returned, a failure falls through to the
\* final error message. Nothing leads back to the repair prompt.
AfterRetry(ok) == IF ok THEN "return_ok" ELSE "return_fail"

\* Tool names a hint or the Falcon model can carry.
HintNames == ToolNames \cup {"", "unknown_tool"}

\* Argument names the models are seen to produce in this model.
ModelArgNames == {"query", "location", "command", "retry"}
ModelArgSets == {a \in SUBSET ModelArgNames : Cardinality(a) <= MaxArgs}

\* ToolWorker.execute: the (tool, arguments) of each keyword class.
ToolWorkerCalls ==
    {Call("execute_command", {"command"}),
     Call("search_news", {"query", "num_results"}),
     Call("search_web", {"query", "num_results"}),
     Call("get_weather", {"location"}),
     Call("get_current_time", {"timezone"})}

ToolInit ==
    /\ hin \in [tool_hint : HintNames,
                arg_hint  : {"none", "plain", "natural"},
                falcon    : BOOLEAN,
                kw        : {"weather", "command", "search", "time", "none"},
                return_raw : BOOLEAN]
    /\ hpc = "start"
    /\ tool_name = "" /\ arguments = {} /\ calls = <<>>
    /\ repairs = 0 /\ outcome = "none"
    /\ raw_result = <<>> /\ corrected_args_str = "none"
    /\ NotToolIdle

\* Everything up to "2. Tool execution": the call is taken from the hint, from
\* Falcon (generate_tool_call) or from the keywords, its arguments are repaired,
\* and a call that carries "error" is answered by brain.direct_respond.
Decide(tc) ==
    IF tc.error
    THEN /\ hpc' = "done" /\ outcome' = "direct_respond"
         /\ UNCHANGED <<tool_name, arguments>>
    ELSE /\ hpc' = "exec" /\ outcome' = outcome
         /\ tool_name' = tc.name
         /\ arguments' = RepairArguments(tc.name, tc.arguments)

HandleFromHint ==
    /\ hpc = "start"
    /\ ArgsFromHint(hin.tool_hint, hin.arg_hint) # {}
    /\ Decide(Call(hin.tool_hint, ArgsFromHint(hin.tool_hint, hin.arg_hint)))
    /\ UNCHANGED <<hin, calls, repairs, raw_result, corrected_args_str>>
    /\ UNCHANGED notTool

\* generate_tool_call returns {"error": ...} or a call that passed
\* validate_tool_call; after a JSON error _correct_with_brain returns any
\* object that has a "name".
HandleFromFalcon ==
    /\ hpc = "start"
    /\ ArgsFromHint(hin.tool_hint, hin.arg_hint) = {}
    /\ hin.falcon
    /\ \E n \in HintNames \ {""}, a \in ModelArgSets, corrected \in BOOLEAN :
         Decide(IF corrected \/ validate_tool_call(n, a)
                THEN Call(n, a) ELSE NoCall)
    /\ UNCHANGED <<hin, calls, repairs, raw_result, corrected_args_str>>
    /\ UNCHANGED notTool

HandleFromKeywords ==
    /\ hpc = "start"
    /\ ArgsFromHint(hin.tool_hint, hin.arg_hint) = {}
    /\ ~hin.falcon
    /\ Decide(InferToolFromKeywords(hin.kw, hin.tool_hint))
    /\ UNCHANGED <<hin, calls, repairs, raw_result, corrected_args_str>>
    /\ UNCHANGED notTool

\* result = self.tool_executor.execute(tool_name, arguments), the semantic
\* error scan, and the choice between returning and retrying.
HandleExecute ==
    /\ hpc = "exec"
    /\ calls' = Append(calls, Call(tool_name, arguments))
    /\ \E r \in ExecReports(tool_name, arguments) :
         /\ IF r = "fail" THEN raw_result' = <<>>
            ELSE /\ raw_result' \in PayloadTexts
                 /\ (r = "soft") <=> SemanticError(raw_result')
         /\ IF r = "ok"
            THEN hpc' = "done" /\ outcome' = "success"
            ELSE IF MayRepair(arguments)
            THEN hpc' = "repair" /\ outcome' = outcome
            ELSE hpc' = "done" /\ outcome' = "failure_message"
    /\ UNCHANGED <<hin, tool_name, arguments, repairs, corrected_args_str>>
    /\ UNCHANGED notTool

\* The repair round: the prompt is sent (under the model lock), the answer is
\* stripped of its fences and, when it starts with "{", parsed and executed
\* with the retry flag added. A bare string or unparsable JSON is not executed.
HandleRepair ==
    /\ hpc = "repair"
    /\ repairs' = repairs + 1
    /\ \E answer \in {"object", "bare", "broken"} :
         /\ corrected_args_str' = answer
         /\ IF answer = "object"
            THEN \E a \in ModelArgSets :
                   /\ calls' = Append(calls, Call(tool_name, RetryArgs(a)))
                   /\ \E r \in ExecReports(tool_name, RetryArgs(a)) :
                        hpc' = AfterRetry(r \in {"ok", "soft"})
            ELSE /\ calls' = calls
                 /\ hpc' = "return_fail"
    /\ UNCHANGED <<hin, tool_name, arguments, outcome, raw_result>>
    /\ UNCHANGED notTool

\* return retry_result / integrate_response(...) after a successful retry
HandleReturnRetry ==
    /\ hpc = "return_ok"
    /\ hpc' = "done" /\ outcome' = "success"
    /\ UNCHANGED <<hin, tool_name, arguments, calls, repairs,
                   raw_result, corrected_args_str>>
    /\ UNCHANGED notTool

\* the final error message
HandleReturnFail ==
    /\ hpc = "return_fail"
    /\ hpc' = "done" /\ outcome' = "failure_message"
    /\ UNCHANGED <<hin, tool_name, arguments, calls, repairs,
                   raw_result, corrected_args_str>>
    /\ UNCHANGED notTool

\* ToolWorker.execute: one direct call of ToolExecutor.execute.
ToolWorkerExecute ==
    /\ hpc = "start"
    /\ \E c \in ToolWorkerCalls : calls' = Append(calls, c)
    /\ hpc' = "done" /\ outcome' = "worker_record"
    /\ UNCHANGED <<hin, tool_name, arguments, repairs, raw_result, corrected_args_str>>
    /\ UNCHANGED notTool

ToolNext ==
    \/ HandleFromHint \/ HandleFromFalcon \/ HandleFromKeywords
    \/ HandleExecute \/ HandleRepair
    \/ HandleReturnRetry \/ HandleReturnFail
    \/ ToolWorkerExecute

SpecTool == ToolInit /\ [][ToolNext]_vars

(***************************************************************************)
(*                     _handle_tool_call : properties                      *)
(***************************************************************************)
\* C4: per invocation the tool handler is executed at most twice and the
\* repair prompt is sent at most once; the retry's outcome starts no new round.
C4_RetryBound == Len(calls) <= 2 /\ repairs <= 1

\* The retry was executed and failed: the call ends with the error message.
C4_Witness ==
    /\ hpc = "done" /\ outcome = "failure_message"
    /\ Len(calls) = 2 /\ repairs = 1

Conforms(c) ==
    c.name \in ToolNames =>
        /\ Required(c.name) \subseteq c.arguments
        /\ c.arguments \subseteq Properties(c.name)

\* The markers of a semantic error: timeout, rate limit, api error, access
\* denied, 404, 500, traceback.
SemanticMarkers ==
    {<<"timeout">>, <<"rate", "limit">>, <<"api", "error">>,
     <<"access", "denied">>, <<"404">>, <<"500">>, <<"traceback">>}

\* C21: a success=true result whose payload holds a semantic-error marker
\* (in any letter case) is never returned or formatted as a success.
C21_MarkerMeansFailure ==
    (hpc = "done" /\ outcome = "success" /\ Len(calls) = 1) =>
        \A m \in SemanticMarkers : ~OccursIn(m, LowerText(raw_result))

\* C22: when execute_command failed and the repair answer is a bare string,
\* execute_command is invoked a second time before the call ends.
C22_BareStringIsExecuted ==
    (hpc = "done" /\ tool_name = "execute_command" /\ corrected_args_str = "bare")
        => Len(calls) = 2

\* C5: every call that reaches a tool handler passes exactly parameters the
\* tool's schema declares (all required ones, none foreign).
C5_SchemaConformance == \A k \in 1..Len(calls) : Conforms(calls[k])

(***************************************************************************)
(*                             Brain.route                                 *)
(***************************************************************************)
\* The input is modelled by the phrases it contains. No phrase of the
\* vocabulary contains a keyword of a list other than the ones it is named in.
Vocabulary ==
    {"latest", "hello", "what is", "docker", "weather", "calculate",
     "fibonacci", "write", "version", "python", "past", "yoyak", "hamsu",
     "news", "script"}
\* "yoyak" is the Korean word for summary without an ending (in
\* direct_keywords, not in direct_fast); "hamsu" is the Korean word for
\* function on its own (in keywords_reasoner, not in reasoner_fast).

Inputs == {u \in SUBSET Vocabulary : Cardinality(u) <= MaxWords}

\* any(k in user_lower for k in <list>), per keyword list of Brain.route
Has(u, words) == u \cap words # {}

recent_keywords   == {"latest"}
direct_fast       == {"hello"}
concept_patterns  == {"what is"}
tool_keywords     == {"weather", "version", "news"}
tech_terms        == {"docker"}
calc_keywords     == {"calculate"}
reasoner_fast     == {"fibonacci"}
creation_keywords == {"write", "script"}
historical_keywords == {"past"}
cmd_targets       == {"python", "docker"}
direct_keywords   == {"hello", "yoyak"}
code_words        == {"python"}
code_excluded     == {"version", "yoyak"}
keywords_reasoner == {"hamsu", "fibonacci", "script"}

\* fast_tools, in the order the dictionary is iterated
FastToolOrder ==
    <<"get_weather", "search_web", "search_news", "execute_command",
      "get_current_time">>
FastToolWords(t) ==
    CASE t = "get_weather"     -> {"weather"}
      [] t = "search_news"     -> {"news"}
      [] t = "execute_command" -> {"version"}
      [] OTHER                 -> {}

Tool(hint)  == [route |-> "TOOL", specialist_prompt |-> "user_input",
                tool_hint |-> hint]
Direct      == [route |-> "DIRECT", specialist_prompt |-> "", tool_hint |-> ""]
Reasoner    == [route |-> "REASONER", specialist_prompt |-> "user_input",
                tool_hint |-> ""]
Undecided   == [route |-> "none"]

\* for tool_name, keywords in fast_tools.items(): ... from entry k on
RECURSIVE FastTools(_, _)
FastTools(u, k) ==
    IF k > Len(FastToolOrder) THEN Undecided
    ELSE LET t == FastToolOrder[k] IN
         IF ~Has(u, FastToolWords(t)) THEN FastTools(u, k + 1)
         ELSE IF t = "get_weather" /\ Has(u, historical_keywords)
              THEN Tool("search_web")
         ELSE IF t = "execute_command"
              THEN IF Has(u, cmd_targets) THEN Tool(t) ELSE FastTools(u, k + 1)
         ELSE Tool(t)

\* The keyword fast path, up to "self.model.reset()".
FastPath(u) ==
    IF Has(u, recent_keywords) THEN Tool("search_web")
    ELSE IF Has(u, direct_fast) THEN Direct
    ELSE IF Has(u, concept_patterns) /\ Has(u, tech_terms)
         THEN Tool("search_web")
    ELSE IF Has(u, concept_patterns) /\ ~Has(u, tool_keywords) THEN Direct
    ELSE IF Has(u, calc_keywords) THEN Tool("calculate")
    ELSE IF Has(u, reasoner_fast) THEN Reasoner
    ELSE IF ~Has(u, creation_keywords) THEN FastTools(u, 1)
    ELSE Undecided

\* The keyword pass that follows a completion without a parsable JSON object.
SecondPass(u) ==
    IF Has(u, direct_keywords) /\ ~Has(u, creation_keywords) THEN Direct
    ELSE IF Has(u, code_words) /\ ~Has(u, code_excluded) THEN Reasoner
    ELSE IF Has(u, keywords_reasoner) /\ ~Has(u, direct_keywords) THEN Reasoner
    ELSE Direct

\* JSON objects the completion can hold: any of the three keys may be missing
\* and the values are whatever the model wrote.
RouteValues == {"DIRECT", "TOOL", "REASONER", "tool"}
HintValues  == {"", "search_web"}
ModelObjects ==
    {[route |-> r, specialist_prompt |-> "text", tool_hint |-> h] :
        r \in RouteValues, h \in HintValues}
    \cup {[route |-> r, specialist_prompt |-> "text"] : r \in RouteValues}
    \cup {[specialist_prompt |-> "text"]}

\* result = json.loads(content[start:end]); return result
Parsed(obj) == obj

RouteInit ==
    /\ rpc = "start"
    /\ user_input \in Inputs
    /\ decision = Undecided
    /\ NotRouteIdle

RouteFast ==
    /\ rpc = "start"
    /\ FastPath(user_input) # Undecided
    /\ decision' = FastPath(user_input)
    /\ rpc' = "done"
    /\ UNCHANGED user_input
    /\ UNCHANGED notRoute

\* self.model.reset(); output = self.model(prompt, ...)
RouteCompletion ==
    /\ rpc = "start"
    /\ FastPath(user_input) = Undecided
    /\ rpc' = "llm"
    /\ UNCHANGED <<user_input, decision>>
    /\ UNCHANGED notRoute

RouteParsed ==
    /\ rpc = "llm"
    /\ \E obj \in ModelObjects : decision' = Parsed(obj)
    /\ rpc' = "done"
    /\ UNCHANGED user_input
    /\ UNCHANGED notRoute

RouteParseFailure ==
    /\ rpc = "llm"
    /\ decision' = SecondPass(user_input)
    /\ rpc' = "done"
    /\ UNCHANGED user_input
    /\ UNCHANGED notRoute

RouteNext == RouteFast \/ RouteCompletion \/ RouteParsed \/ RouteParseFailure

SpecRoute == RouteInit /\ [][RouteNext]_vars

(***************************************************************************)
(*                        Brain.route : properties                         *)
(***************************************************************************)
Field(d, k) == IF k \in DOMAIN d THEN d[k] ELSE ""

WellFormedDecision(d) ==
    /\ Field(d, "route") \in {"DIRECT", "TOOL", "REASONER"}
    /\ (Field(d, "tool_hint") # "") <=> (Field(d, "route") = "TOOL")

\* C6: Brain.route returns one decision whose route is DIRECT, TOOL or REASONER
\* and whose tool_hint is non-empty iff the route is TOOL, on every path.
C6_RoutingTotality == rpc = "done" => WellFormedDecision(decision)

(***************************************************************************)
(*              ToolExecutor.execute and execute_command                   *)
(***************************************************************************)
\* A command line is a sequence of words joined by single spaces. No word of
\* the alphabet has a pattern word as a proper part, so "pattern in cmd_lower"
\* is a run of consecutive equal words.
CommandWords == {"rm", "RM", "-rf", "curl", "wget", "URL", "|", "sh", "format"}
Commands == UNION {[1..k -> CommandWords] : k \in 0..MaxCmdLen}

\* str.lower() of one word
LowerWord(w) ==
    CASE w = "RM"  -> "rm"
      [] w = "URL" -> "url"
      [] OTHER     -> w

\* cmd_lower = command.lower()
Lower(cmd) == [k \in DOMAIN cmd |-> LowerWord(cmd[k])]

\* dangerous_patterns, in list order, each already lowered (pattern.lower())
dangerous_patterns ==
    << <<"rm", "-rf">>, <<"del", "/s", "/q">>, <<"format">>, <<"mkfs">>,
       <<"shutdown">>, <<"reboot">>, <<"halt">>,
       <<"dd", "if=">>, <<">", "/dev/">>,
       <<"chmod", "777">>, <<"chmod", "-r">>,
       <<"curl", "|", "sh">>, <<"wget", "|", "sh">> >>

\* for pattern in dangerous_patterns: if pattern.lower() in cmd_lower: return
\* -- the first matching pattern, or <<>> when the loop ends without a match.
BlockedBy(cmd) ==
    LET hits == {k \in DOMAIN dangerous_patterns :
                    OccursIn(dangerous_patterns[k], Lower(cmd))}
    IN IF hits = {} THEN <<>>
       ELSE dangerous_patterns[CHOOSE k \in hits : \A j \in hits : k <= j]

\* The payload a handler returns: its "error" entry ("none" when the entry is
\* absent or None) and, for a blocked command, the pattern named in it.
Payload(err, pat) == [error |-> err, pattern |-> pat]

\* return {"success": True, "tool": ..., "arguments": ..., "result": result}
SuccessRecord(t, payload) == [success |-> TRUE, tool |-> t, result |-> payload]
\* except Exception as e: return {"success": False, ..., "error": str(e)}
FailureRecord(t) == [success |-> FALSE, tool |-> t, error |-> "exception text"]
\* return {"error": f"Unknown tool: ...", "available_tools": [...]}
UnknownToolRecord == [error |-> "Unknown tool", available_tools |-> ToolNames]

ExecInit ==
    /\ epc = "start"
    /\ ecall \in [tool : (ToolNames \cup {"unknown_tool"}) \ {"execute_command"},
                  command : {<<>>}]
              \cup [tool : {"execute_command"}, command : Commands]
    /\ handled = "none" /\ erecord = <<>> /\ spawned = FALSE
    /\ NotExecIdle

\* if tool_name not in self.tools
ExecUnknownTool ==
    /\ epc = "start"
    /\ ecall.tool \notin ToolNames
    /\ erecord' = UnknownToolRecord
    /\ handled' = "unknown"
    /\ epc' = "done"
    /\ UNCHANGED <<ecall, spawned>>
    /\ UNCHANGED notExec

\* self.tools[tool_name](**arguments) raises (a missing or ill-typed argument,
\* an exception the handler does not catch).
ExecHandlerRaises ==
    /\ epc = "start"
    /\ ecall.tool \in ToolNames
    /\ erecord' = FailureRecord(ecall.tool)
    /\ handled' = "raised"
    /\ epc' = "done"
    /\ UNCHANGED <<ecall, spawned>>
    /\ UNCHANGED notExec

\* A handler other than execute_command returns its payload: a result, or a
\* mapping with an "error" entry (network failure, invalid expression, ...).
ExecHandlerReturns ==
    /\ epc = "start"
    /\ ecall.tool \in ToolNames \ {"execute_command"}
    /\ \E h \in {"succeeded", "reported_error"} :
         /\ handled' = h
         /\ erecord' = SuccessRecord(ecall.tool,
                          Payload(IF h = "succeeded" THEN "none" ELSE "message",
                                  <<>>))
    /\ epc' = "done"
    /\ UNCHANGED <<ecall, spawned>>
    /\ UNCHANGED notExec

\* execute_command finds a dangerous pattern and returns the error mapping.
ExecCommandBlocked ==
    /\ epc = "start"
    /\ ecall.tool = "execute_command"
    /\ BlockedBy(ecall.command) # <<>>
    /\ handled' = "reported_error"
    /\ erecord' = SuccessRecord(ecall.tool,
                     Payload("Blocked dangerous command pattern",
                             BlockedBy(ecall.command)))
    /\ epc' = "done"
    /\ UNCHANGED <<ecall, spawned>>
    /\ UNCHANGED notExec

\* execute_command runs subprocess.run(command, shell=True, ...): the command
\* ends (with any return code), times out, or cannot be started.
ExecCommandRuns ==
    /\ epc = "start"
    /\ ecall.tool = "execute_command"
    /\ BlockedBy(ecall.command) = <<>>
    /\ spawned' = TRUE
    /\ \E end \in {"returned", "timed_out", "os_error"} :
         /\ handled' = IF end = "returned" THEN "succeeded" ELSE "reported_error"
         /\ erecord' = SuccessRecord(ecall.tool,
                          Payload(CASE end = "returned"  -> "none"
                                    [] end = "timed_out" -> "Command timed out"
                                    [] OTHER             -> "message",
                                  <<>>))
    /\ epc' = "done"
    /\ UNCHANGED ecall
    /\ UNCHANGED notExec

ExecNext ==
    \/ ExecUnknownTool \/ ExecHandlerRaises \/ ExecHandlerReturns
    \/ ExecCommandBlocked \/ ExecCommandRuns

SpecExec == ExecInit /\ [][ExecNext]_vars

(***************************************************************************)
(*                  ToolExecutor.execute : properties                      *)
(***************************************************************************)
\* C11: ToolExecutor.execute returns success=false with an error string when
\* the invocation failed (unknown tool, handler raised, handler reported an
\* error) and success=true with a result only when the handler succeeded.
C11_FailureIsReported ==
    epc = "done" =>
        /\ "success" \in DOMAIN erecord
        /\ IF handled = "succeeded"
           THEN erecord.success /\ "result" \in DOMAIN erecord
           ELSE ~erecord.success /\ "error" \in DOMAIN erecord

\* A curl or wget download piped into a shell: "curl ... | sh".
PipedDownload(cmd) ==
    \E i, j \in DOMAIN cmd :
        /\ i < j /\ j < Len(cmd)
        /\ Lower(cmd)[i] \in {"curl", "wget"}
        /\ cmd[j] = "|" /\ Lower(cmd)[j + 1] = "sh"
        /\ \A k \in (i + 1)..(j - 1) : cmd[k] # "|"

Destructive(cmd) ==
    \/ OccursIn(<<"rm", "-rf">>, Lower(cmd))
    \/ OccursIn(<<"format">>, Lower(cmd))
    \/ OccursIn(<<"shutdown">>, Lower(cmd))
    \/ PipedDownload(cmd)

\* C12: execute_command never starts a subprocess for a command that holds a
\* destructive pattern (rm -rf, format, shutdown, a curl/wget download piped
\* into a shell), in any letter case; it returns the error naming the pattern.
C12_DestructiveNeverRuns ==
    (epc = "done" /\ ecall.tool = "execute_command"
       /\ handled # "raised" /\ Destructive(ecall.command)) =>
        /\ ~spawned
        /\ erecord.result.pattern # <<>>

(***************************************************************************)
(*                             TinyMoA.chat                                *)
(***************************************************************************)
\* What a piece of text can contain, as far as chat's branching looks at it:
\*   compound     a match of one of route_pipeline's compound patterns
\*                ("search ... summarize", "news ... brief", ...)
\*   complex      one of the keywords of is_complex ("compare", "vs", "each", ...)
\*   coordinator  a delimiter decompose_query splits at (", ", " and ", ...)
\*   tool_keyword a keyword Brain.route answers with TOOL
\* The patterns do not match across the line breaks of the fence, so the
\* appended text contains what its two parts contain.
TextFeatures == {"compound", "complex", "coordinator", "tool_keyword"}

Requests ==
    {r \in [rag : BOOLEAN, user : SUBSET TextFeatures,
            material : SUBSET TextFeatures] : ~r.rag => r.material = {}}

\* len(decompose_query(user_input)): one part without a coordinator.
SubQueryCounts(text) ==
    IF "coordinator" \in text THEN {"one", "several"} ELSE {"one"}

\* route of Brain.route: the keyword fast path, or whatever the model answers.
RouteOutcomes(text) ==
    IF "tool_keyword" \in text THEN {"tool"} ELSE {"tool", "reasoner", "direct"}

\* tool_hint of the first compound pattern re.search finds, or "none"
CompoundHints == {"none", "search_web", "get_weather", "search_news"}

\* The two steps built for a compound pattern.
CompoundPipeline(text, tool_hint) ==
    << [route |-> "TOOL", specialist_prompt |-> text, tool_hint |-> tool_hint,
        step |-> 1, description |-> "tool"],
       [route |-> "DIRECT", specialist_prompt |-> "", tool_hint |-> "",
        step |-> 2, description |-> "follow up", context_from_step |-> 1] >>

\* step.get("context_from_step", step_num - 1)
ContextFromSelf(s) == s.step
ContextFrom(s) ==
    IF "context_from_step" \in DOMAIN s THEN s.context_from_step ELSE s.step - 1

\* What _handle_tool_call(..., return_raw=True) returns for the TOOL step: the
\* full result record of a success, or a text (the failure message, or the
\* answer of direct_respond when no call could be built).
Text(t) == [kind |-> "text", text |-> t]
StepOutcomes ==
    {[kind |-> "record", success |-> TRUE, result |-> "payload"],
     Text("failure_message"), Text("direct_answer")}

\* prev_result = step_results.get(context_from, ""), and for a dict
\* str(prev_result.get("result", prev_result))
PrevResult(stored, context_from) ==
    IF context_from \in DOMAIN stored
    THEN (IF stored[context_from].kind = "record"
          THEN stored[context_from].result
          ELSE stored[context_from].text)
    ELSE ""

ChatInit ==
    /\ cpc = "start"
    /\ cin \in Requests
    /\ ctext = {} /\ invoked = {}
    /\ step_results = <<>> /\ passed = <<>>
    /\ NotChatIdle

\* user_input, rag_context = self._process_rag_attachments(user_input);
\* if rag_context: user_input += "--- Reference Material ---" ...
ChatAttach ==
    /\ cpc = "start"
    /\ ctext' = IF cin.rag THEN cin.user \cup cin.material ELSE cin.user
    /\ cpc' = "route_pipeline"
    /\ UNCHANGED <<cin, invoked, step_results, passed>>
    /\ UNCHANGED notChat

\* route_pipeline found a compound pattern: len(pipeline) > 1 and step 1 is
\* TOOL -- _handle_tool_call(user_input, tool_hint, specialist_prompt, ...)
\* with a non-empty hint, so the tool is executed.
ChatPipelineTool ==
    /\ cpc = "route_pipeline"
    /\ "compound" \in ctext
    /\ invoked' = invoked \cup {"tool"}
    /\ \E r \in StepOutcomes, hint \in CompoundHints \ {"none"} :
         step_results' = (CompoundPipeline("user_input", hint)[1].step :> r)
    /\ cpc' = "pipeline_direct"
    /\ UNCHANGED <<cin, ctext, passed>>
    /\ UNCHANGED notChat

\* step 2 is DIRECT: integrate_response over the result of step 1; return.
ChatPipelineDirect ==
    /\ cpc = "pipeline_direct"
    /\ invoked' = invoked \cup {"integrate"}
    /\ LET step == CompoundPipeline("user_input", "search_web")[2]
           context_from == ContextFrom(step)
       IN /\ passed' = [step |-> step.step, context_from |-> context_from,
                        finished |-> context_from \in DOMAIN step_results,
                        data |-> PrevResult(step_results, context_from)]
          /\ step_results' = (step.step :> Text("integrated")) @@ step_results
    /\ cpc' = "done"
    /\ UNCHANGED <<cin, ctext>>
    /\ UNCHANGED notChat

\* No compound pattern: route_pipeline returns one step, which chat drops.
ChatSinglePipeline ==
    /\ cpc = "route_pipeline"
    /\ "compound" \notin ctext
    /\ cpc' = "complex"
    /\ UNCHANGED <<cin, ctext, invoked, step_results, passed>>
    /\ UNCHANGED notChat

\* is_complex: sub_queries = self.brain.decompose_query(user_input)
ChatDecompose ==
    /\ cpc = "complex"
    /\ "complex" \in ctext
    /\ \E n \in SubQueryCounts(ctext) :
         cpc' = IF n = "several" THEN "sub_queries" ELSE "main"
    /\ UNCHANGED <<cin, ctext, invoked, step_results, passed>>
    /\ UNCHANGED notChat

ChatNotComplex ==
    /\ cpc = "complex"
    /\ "complex" \notin ctext
    /\ cpc' = "main"
    /\ UNCHANGED <<cin, ctext, invoked, step_results, passed>>
    /\ UNCHANGED notChat

\* for sub_q in sub_queries: route -> _handle_tool_call or direct_respond;
\* then integrate_response over the collected results; return.
ChatSubQueries ==
    /\ cpc = "sub_queries"
    /\ \E routes \in (SUBSET {"tool", "direct"}) \ {{}} :
         invoked' = invoked \cup routes \cup {"integrate"}
    /\ cpc' = "done"
    /\ UNCHANGED <<cin, ctext, step_results, passed>>
    /\ UNCHANGED notChat

\* if rag_context: route = "DIRECT" -> self.brain.direct_respond(...)
ChatMainForcedDirect ==
    /\ cpc = "main"
    /\ cin.rag
    /\ invoked' = invoked \cup {"direct"}
    /\ cpc' = "done"
    /\ UNCHANGED <<cin, ctext, step_results, passed>>
    /\ UNCHANGED notChat

\* else: route_result = self.brain.route(processed_input) and its branch
ChatMainRouted ==
    /\ cpc = "main"
    /\ ~cin.rag
    /\ \E r \in RouteOutcomes(ctext) : invoked' = invoked \cup {r}
    /\ cpc' = "done"
    /\ UNCHANGED <<cin, ctext, step_results, passed>>
    /\ UNCHANGED notChat

ChatNext ==
    \/ ChatAttach \/ ChatPipelineTool \/ ChatPipelineDirect
    \/ ChatSinglePipeline \/ ChatDecompose \/ ChatNotComplex
    \/ ChatSubQueries \/ ChatMainForcedDirect \/ ChatMainRouted

SpecChat == ChatInit /\ [][ChatNext]_vars

(***************************************************************************)
(*                        TinyMoA.chat : properties                        *)
(***************************************************************************)
\* C13: when the @[file] reference yielded context and the user's own text
\* matches no tool keyword, chat answers by the DIRECT route: no tool handler
\* and no Reasoner call, whatever the reference material contains.
C13_RagForcesDirect ==
    (cpc = "done" /\ cin.rag
       /\ cin.user \cap {"tool_keyword", "compound"} = {}) =>
        invoked \cap {"tool", "reasoner"} = {}

\* The text a stored step result stands for: the tool's payload for a
\* success record, the stored text otherwise.
RawText(r) == CASE r.kind = "record" -> r.result [] OTHER -> r.text

SingleStep(d) ==
    [k \in DOMAIN d \cup {"step", "description"} |->
        CASE k = "step"        -> 1
          [] k = "description" -> "single"
          [] OTHER             -> d[k]]

\* JSON objects of the completion: those of Brain.route, and objects that
\* carry a "context_from_step" entry of their own.
BackRefs == 0..MaxBackRef
PipelineObjects ==
    ModelObjects
    \cup {[route |-> r, specialist_prompt |-> "text", tool_hint |-> "",
           context_from_step |-> b] : r \in {"DIRECT"}, b \in BackRefs}

PipeInit ==
    /\ ppc = "start"
    /\ pin \in [words : Inputs, compound : CompoundHints]
    /\ pipeline = <<>>
    /\ NotPipeIdle

\* for pattern, tool_hint, _ in all_patterns: if re.search(...): return pipeline
PipeCompound ==
    /\ ppc = "start"
    /\ pin.compound # "none"
    /\ pipeline' = CompoundPipeline("user_input", pin.compound)
    /\ ppc' = "done"
    /\ UNCHANGED pin
    /\ UNCHANGED notPipe

\* single_route = self.route(user_input), answered by the keyword fast path
PipeSingleFast ==
    /\ ppc = "start"
    /\ pin.compound = "none"
    /\ FastPath(pin.words) # Undecided
    /\ pipeline' = <<SingleStep(FastPath(pin.words))>>
    /\ ppc' = "done"
    /\ UNCHANGED pin
    /\ UNCHANGED notPipe

\* ... answered by the model with a JSON object: route returns it as parsed;
\* single_route['route'] raises KeyError when the object has no "route".
PipeSingleModel ==
    /\ ppc = "start"
    /\ pin.compound = "none"
    /\ FastPath(pin.words) = Undecided
    /\ \E obj \in PipelineObjects :
         IF "route" \in DOMAIN obj
         THEN pipeline' = <<SingleStep(Parsed(obj))>> /\ ppc' = "done"
         ELSE pipeline' = pipeline /\ ppc' = "raised"
    /\ UNCHANGED pin
    /\ UNCHANGED notPipe

\* ... answered by the keyword pass after a completion without JSON
PipeSingleSecondPass ==
    /\ ppc = "start"
    /\ pin.compound = "none"
    /\ FastPath(pin.words) = Undecided
    /\ pipeline' = <<SingleStep(SecondPass(pin.words))>>
    /\ ppc' = "done"
    /\ UNCHANGED pin
    /\ UNCHANGED notPipe

PipeNext ==
    \/ PipeCompound \/ PipeSingleFast \/ PipeSingleModel \/ PipeSingleSecondPass

SpecPipe == PipeInit /\ [][PipeNext]_vars

(***************************************************************************)
(*                   Brain.route_pipeline : properties                     *)
(***************************************************************************)
\* C14: in every returned pipeline each step's context_from_step (explicit, or
\* the default step - 1) is smaller than the step's own number.
C14_PipelineAcyclic ==
    ppc = "done" =>
        \A k \in DOMAIN pipeline : ContextFrom(pipeline[k]) < pipeline[k].step

(***************************************************************************)
(*                       Brain.integrate_response                          *)
(***************************************************************************)
\* Result items of search_web / search_news carry "url"; integrate_response
\* also accepts "link".
Urls == {"https://a.example/1", "https://b.example/?q=2"}
Items == [url : Urls] \cup [link : {"https://c.example/3"}]

\* Payloads of the upstream tasks: a search/news result, a weather result, or
\* plain text (a Brain summary).
ItemLists ==
    {l \in UNION {[1..k -> Items] : k \in 0..MaxItems} :
       \A a, b \in DOMAIN l : l[a] = l[b] => a = b}
SearchPayloads == [kind : {"search"}, results : ItemLists]
Payloads == SearchPayloads \cup {[kind |-> "weather"], [kind |-> "text"]}

\* {'success': True, 'tool': ..., 'result': payload}
Wrap(payload) == [kind |-> "record", result |-> payload]

\* specialist_output as a sequence of tokens: the markers "[TASK:", "]" and
\* "DATA:", words, and the str() of a dict ("repr", with the dict it spells).
Tok(t) == [t |-> t, v |-> <<>>]
Repr(d) == [t |-> "repr", v |-> d]

\* str(t.result) of one payload
StrTokens(payload, wrapped) ==
    IF payload.kind = "text" THEN <<Tok("word")>>
    ELSE <<Repr(IF wrapped THEN Wrap(payload) ELSE payload)>>

\* The task description inside the marker: plain words, or words holding
\* a "]" followed by "DATA:" ("Search [2024] DATA: trends").
DescTokens(desc) ==
    IF desc = "plain" THEN <<Tok("word")>>
    ELSE <<Tok("word"), Tok("close"), Tok("data"), Tok("word")>>

\* "\n\n".join(f"[TASK: {description}]\nDATA: {result}" ...)
RECURSIVE CoworkText(_, _, _)
CoworkText(payloads, wrapped, desc) ==
    IF payloads = <<>> THEN <<>>
    ELSE <<Tok("open")>> \o DescTokens(desc) \o <<Tok("close"), Tok("data")>>
         \o StrTokens(Head(payloads), wrapped)
         \o CoworkText(Tail(payloads), wrapped, desc)

\* Position of the first token of type t at or after position k (0: none).
RECURSIVE Find(_, _, _)
Find(text, t, k) ==
    IF k > Len(text) THEN 0
    ELSE IF text[k].t = t THEN k
    ELSE Find(text, t, k + 1)

\* re.split(r"\[TASK:.*?\]", specialist_output): the pieces between markers;
\* a marker runs from "[TASK:" to the first "]" after it.
RECURSIVE SplitAtMarkers(_)
SplitAtMarkers(text) ==
    LET o == Find(text, "open", 1) IN
    IF o = 0 THEN <<text>>
    ELSE LET c == Find(text, "close", o + 1) IN
         IF c = 0 THEN <<text>>
         ELSE <<SubSeq(text, 1, o - 1)>>
              \o SplitAtMarkers(SubSeq(text, c + 1, Len(text)))

\* URLs that occur, spelled out, in a piece of text.
SourceUrls(item) == {item[f] : f \in DOMAIN item}
PayloadUrls(d) ==
    LET p == IF d.kind = "record" THEN d.result ELSE d IN
    IF p.kind = "search"
    THEN UNION {SourceUrls(p.results[k]) : k \in DOMAIN p.results}
    ELSE {}
TextUrls(text) ==
    UNION {IF text[k].t = "repr" THEN PayloadUrls(text[k].v) ELSE {} :
             k \in DOMAIN text}

\* data_str = raw.split("DATA:", 1)[1].strip(); data = eval(data_str), and
\* on failure {"type": "text", "content": data_str} when data_str is not empty.
SectionOf(raw) ==
    LET d == Find(raw, "data", 1)
        data_str == SubSeq(raw, d + 1, Len(raw))
    IN IF Len(data_str) = 1 /\ data_str[1].t = "repr"
       THEN <<data_str[1].v>>
       ELSE IF data_str # <<>>
       THEN <<[kind |-> "text", content |-> data_str]>>
       ELSE <<>>

RECURSIVE SectionsOf(_)
SectionsOf(raws) ==
    IF raws = <<>> THEN <<>>
    ELSE (IF Find(Head(raws), "data", 1) # 0 THEN SectionOf(Head(raws)) ELSE <<>>)
         \o SectionsOf(Tail(raws))

\* The parsing of specialist_output into sections.
ParseSections(text) ==
    IF Find(text, "open", 1) # 0 /\ Find(text, "data", 1) # 0
    THEN SectionsOf(SplitAtMarkers(text))
    ELSE IF Len(text) = 1 /\ text[1].t = "repr" THEN <<text[1].v>>
    ELSE IF Find(text, "repr", 1) # 0
    THEN <<[kind |-> "text", content |-> text]>>
    ELSE <<[kind |-> "empty"]>>

ItemUrlLinkOnly(item) == IF "link" \in DOMAIN item THEN item.link ELSE ""
\* url = item.get("url", item.get("link", ""))
RenderedUrl(item) ==
    IF "url" \in DOMAIN item THEN item.url
    ELSE IF "link" \in DOMAIN item THEN item.link
    ELSE ""

\* The block "[Deterministic Formatting]" appends for one section (<<>>: none).
BlockOf(data) ==
    IF data.kind = "text"
    THEN <<[kind |-> "text", urls |-> TextUrls(data.content)]>>
    ELSE LET inner == IF data.kind = "record" THEN data.result ELSE data IN
         IF inner.kind = "search"
         THEN <<[kind |-> "search",
                 urls |-> {RenderedUrl(inner.results[k]) :
                             k \in DOMAIN inner.results}]>>
         ELSE IF inner.kind = "weather"
         THEN <<[kind |-> "weather", urls |-> {}]>>
         ELSE <<>>

RECURSIVE BlocksOf(_)
BlocksOf(secs) ==
    IF secs = <<>> THEN <<>>
    ELSE BlockOf(Head(secs)) \o BlocksOf(Tail(secs))

IntegInit ==
    /\ ipc = "start"
    /\ iin \in {r \in [payloads : UNION {[1..k -> Payloads] : k \in 1..MaxSections},
                       wrapped : BOOLEAN, cowork : BOOLEAN,
                       desc : {"plain", "bracket"},
                       none_snippet : BOOLEAN] :
                  /\ ~r.cowork => (Len(r.payloads) = 1 /\ r.desc = "plain")
                  /\ r.none_snippet =>
                        LET last == r.payloads[Len(r.payloads)] IN
                        last.kind = "search" /\ last.results # <<>>}
    /\ sections = <<>> /\ ireturn = <<>>
    /\ NotIntegIdle

\* specialist_output as the caller built it
SpecialistOutput ==
    IF iin.cowork THEN CoworkText(iin.payloads, iin.wrapped, iin.desc)
    ELSE StrTokens(iin.payloads[1], iin.wrapped)

\* snippet.replace("\n", " ") raises when the snippet of an item is None:
\* here the items of the last result, when that section was parsed as a
\* search result.
FormattingRaises ==
    /\ iin.none_snippet
    /\ sections # <<>>
    /\ LET data == sections[Len(sections)]
           inner == IF data.kind = "record" THEN data.result ELSE data
       IN inner.kind = "search"

IntegParse ==
    /\ ipc = "start"
    /\ sections' = ParseSections(SpecialistOutput)
    /\ ipc' = "format"
    /\ UNCHANGED <<iin, ireturn>>
    /\ UNCHANGED notInteg

\* if final_formatted_blocks: return "\n\n".join(final_formatted_blocks)
IntegReturnFormatted ==
    /\ ipc = "format"
    /\ BlocksOf(sections) # <<>> /\ ~FormattingRaises
    /\ ireturn' = [by |-> "format", blocks |-> BlocksOf(sections)]
    /\ ipc' = "done"
    /\ UNCHANGED <<iin, sections>>
    /\ UNCHANGED notInteg

\* Nothing was formatted, or the formatting raised (a snippet that is None):
\* the text is written by the model, with the references appended.
IntegReturnModel ==
    /\ ipc = "format"
    /\ BlocksOf(sections) = <<>> \/ FormattingRaises
    /\ ireturn' = [by |-> "model", blocks |-> <<>>]
    /\ ipc' = "done"
    /\ UNCHANGED <<iin, sections>>
    /\ UNCHANGED notInteg

IntegNext == IntegParse \/ IntegReturnFormatted \/ IntegReturnModel

SpecInteg == IntegInit /\ [][IntegNext]_vars

(***************************************************************************)
(*                 Brain.integrate_response : properties                   *)
(***************************************************************************)
ReturnedUrls ==
    UNION {ireturn.blocks[k].urls : k \in DOMAIN ireturn.blocks}

UpstreamUrls ==
    UNION {PayloadUrls(iin.payloads[k]) : k \in DOMAIN iin.payloads}

\* C15: when the text is produced by the deterministic formatting, every
\* source URL of every upstream search/news result is in the returned text
\* as it was upstream, for any number of [TASK:] sections.
C15_UrlsPreserved ==
    (ipc = "done" /\ ireturn.by = "format") => UpstreamUrls \subseteq ReturnedUrls

\* Two sections were formatted, each with its own URL.
C15_Witness ==
    /\ ipc = "done" /\ ireturn.by = "format"
    /\ Len(iin.payloads) > 1 /\ Len(ireturn.blocks) > 1
    /\ \A k \in DOMAIN ireturn.blocks : ireturn.blocks[k].kind = "search"
    /\ Cardinality(ReturnedUrls) > 1

\* The text of the block rendered for one section: the content of a text
\* section as it is, markdown words for a search list or a weather card.
BlockText(data) ==
    IF data.kind = "text" THEN data.content
    ELSE IF BlockOf(data) # <<>> THEN <<Tok("word")>>
    ELSE <<>>

\* "\n\n".join(final_formatted_blocks)
RECURSIVE JoinedText(_)
JoinedText(secs) ==
    IF secs = <<>> THEN <<>>
    ELSE BlockText(Head(secs)) \o JoinedText(Tail(secs))

\* C25: when at least one section was rendered deterministically, the text
\* returned is the rendered blocks and the model is not called.
C25_NoModelAfterRendering ==
    (ipc = "done" /\ \E k \in DOMAIN sections :
                       /\ BlockOf(sections[k]) # <<>>
                       /\ ~(FormattingRaises /\ k = Len(sections))) =>
        ireturn.by = "format"

\* C24: integrate_response applied to its own deterministic output formats
\* it again without a model call and returns it unchanged.
C24_Idempotent ==
    (ipc = "done" /\ ireturn.by = "format") =>
        LET again == ParseSections(JoinedText(sections)) IN
        /\ BlocksOf(again) # <<>>
        /\ JoinedText(again) = JoinedText(sections)

(***************************************************************************)
(*                  TranslationPipeline.from_english                       *)
(***************************************************************************)
\* A response is a sequence of pieces: a word, a ``` fenced block, or (after
\* the protection) a placeholder __CODE_BLOCK_i__.  The body of a block is
\* plain ("a") or spells the token __CODE_BLOCK_1__ ("x1"); "x1r" is the x1
\* block with that token replaced by something else.
Word(v) == [t |-> "word", v |-> v]
Block(v) == [t |-> "block", v |-> v]
IndexNames == <<"0", "1", "2", "3", "4", "5">>
Placeholder(i) == [t |-> "ph", v |-> IndexNames[i + 1]]
Responses ==
    UNION {[1..k -> {Word("en"), Block("a"), Block("x1")}] : k \in 1..MaxPieces}

\* Number of pieces of text among the first k that are blocks.
RECURSIVE BlocksBefore(_, _)
BlocksBefore(text, k) ==
    IF k = 0 THEN 0
    ELSE BlocksBefore(text, k - 1) + (IF text[k].t = "block" THEN 1 ELSE 0)

\* code_blocks = re.findall(r'```[\s\S]*?```', english_response)
code_blocks(text) == SelectSeq(text, LAMBDA p : p.t = "block")

\* The i-th block (counting from 0) is replaced by __CODE_BLOCK_i__.
Protect(text) ==
    [k \in DOMAIN text |->
       IF text[k].t = "block" THEN Placeholder(BlocksBefore(text, k) - 1)
       ELSE text[k]]

\* translated.replace(placeholder, block) for one placeholder: every place
\* that spells it is replaced, inside an already restored block as well.
RestoreOne(text, i, block) ==
    [k \in DOMAIN text |->
       IF text[k] = Placeholder(i) THEN block
       ELSE IF text[k] = Block("x1") /\ i = 1 THEN Block("x1r")
       ELSE text[k]]

\* for placeholder, block in placeholders: translated = translated.replace(...)
RECURSIVE RestoreFrom(_, _, _)
RestoreFrom(text, blocks, i) ==
    IF i >= Len(blocks) THEN text
    ELSE RestoreFrom(RestoreOne(text, i, blocks[i + 1]), blocks, i + 1)

\* What the translator returns for text_to_translate.
Translated(text, answer) ==
    [k \in DOMAIN text |->
       IF text[k].t = "word" THEN Word("ko")
       ELSE IF answer = "altered" THEN Word("__ code_block __")
       ELSE text[k]]

TransInit ==
    /\ xpc = "start"
    /\ xin \in Responses
    /\ xtext = <<>> /\ xout = <<>>
    /\ NotTransIdle

TransProtect ==
    /\ xpc = "start"
    /\ xtext' = Protect(xin)
    /\ xpc' = "translate"
    /\ UNCHANGED <<xin, xout>>
    /\ UNCHANGED notTrans

\* The translator answers: with the placeholders kept, or with them altered.
TransTranslate ==
    /\ xpc = "translate"
    /\ \E answer \in {"kept", "altered"} :
         xtext' = Translated(xtext, answer)
    /\ xpc' = "restore"
    /\ UNCHANGED <<xin, xout>>
    /\ UNCHANGED notTrans

\* except Exception: return english_response
TransTranslateRaises ==
    /\ xpc = "translate"
    /\ xout' = xin
    /\ xpc' = "done"
    /\ UNCHANGED <<xin, xtext>>
    /\ UNCHANGED notTrans

TransRestore ==
    /\ xpc = "restore"
    /\ xout' = RestoreFrom(xtext, code_blocks(xin), 0)
    /\ xpc' = "done"
    /\ UNCHANGED <<xin, xtext>>
    /\ UNCHANGED notTrans

TransNext == TransProtect \/ TransTranslate \/ TransTranslateRaises \/ TransRestore

SpecTrans == TransInit /\ [][TransNext]_vars

(***************************************************************************)
(*              TranslationPipeline.from_english : properties              *)
(***************************************************************************)
Occurrences(text, piece) == Cardinality({k \in DOMAIN text : text[k] = piece})

\* C16: the returned text holds every fenced block of the response
\* unchanged, as many times as the response holds it, whatever the
\* translator did.
C16_BlocksPreserved ==
    xpc = "done" =>
        \A b \in {Block("a"), Block("x1")} :
            Occurrences(xout, b) = Occurrences(xin, b)

(***************************************************************************)
(*            run_cowork_flow : writes to docs/cowork_result.md            *)
(***************************************************************************)
\* A writer task saves to the first file name found in its description, or
\* to docs/cowork_result.md when there is none.
WriterTargets == {"docs/cowork_result.md", "named.md"}
WriterPlans == UNION {[1..k -> WriterTargets] : k \in 0..MaxWriters}

\* WorkspaceContext.write_file: the content reaches the file, or the error
\* is returned as a message and the file is left as it was.
WriteFile(filename, content, ok) ==
    IF ok THEN Append(swrites, [file |-> filename, content |-> content])
    ELSE swrites

SaveInit ==
    /\ spc = "tasks"
    /\ swriters \in WriterPlans
    /\ swrites = <<>>
    /\ sreport = ""
    /\ NotSaveIdle

\* WriterWorker.execute: brain.direct_respond, then workspace_write
SaveWriterTask ==
    /\ spc = "tasks" /\ swriters # <<>>
    /\ \E ok \in BOOLEAN :
         swrites' = WriteFile(Head(swriters), "draft", ok)
    /\ swriters' = Tail(swriters)
    /\ UNCHANGED <<spc, sreport>>
    /\ UNCHANGED notSave

\* The writer's model call raises: the sequential loop re-raises and the
\* flow ends with the exception.
SaveWriterRaises ==
    /\ spc = "tasks" /\ swriters # <<>>
    /\ spc' = "raised"
    /\ UNCHANGED <<swriters, swrites, sreport>>
    /\ UNCHANGED notSave

\* final_report = self.brain.integrate_response(user_goal, input_data)
SaveIntegrate ==
    /\ spc = "tasks" /\ swriters = <<>>
    /\ sreport' = "report_en"
    /\ spc' = "translate"
    /\ UNCHANGED <<swriters, swrites>>
    /\ UNCHANGED notSave

\* Translation back: final_report is replaced, or kept (translation off,
\* English goal, or from_english raised).
SaveTranslate ==
    /\ spc = "translate"
    /\ sreport' \in {"report_en", "report_ko"}
    /\ spc' = "save"
    /\ UNCHANGED <<swriters, swrites>>
    /\ UNCHANGED notSave

\* workspace.write_file("docs/cowork_result.md", final_report); its outcome
\* is only logged.
SaveAuto ==
    /\ spc = "save"
    /\ \E ok \in BOOLEAN :
         swrites' = WriteFile("docs/cowork_result.md", sreport, ok)
    /\ spc' = "return"
    /\ UNCHANGED <<swriters, sreport>>
    /\ UNCHANGED notSave

\* return final_report
SaveReturn ==
    /\ spc = "return"
    /\ spc' = "returned"
    /\ UNCHANGED <<swriters, swrites, sreport>>
    /\ UNCHANGED notSave

SaveNext ==
    \/ SaveWriterTask \/ SaveWriterRaises \/ SaveIntegrate
    \/ SaveTranslate \/ SaveAuto \/ SaveReturn

SpecSave == SaveInit /\ [][SaveNext]_vars

(***************************************************************************)
(*       run_cowork_flow : writes to docs/cowork_result.md, properties     *)
(***************************************************************************)
ResultWrites == SelectSeq(swrites, LAMBDA w : w.file = "docs/cowork_result.md")

\* C17: when run_cowork_flow has returned normally, the last write to
\* docs/cowork_result.md during the call carries the returned report.
C17_LastWriteIsReport ==
    (spc = "returned" /\ ResultWrites # <<>>) =>
        ResultWrites[Len(ResultWrites)].content = sreport

(***************************************************************************)
(*                         Brain.decompose_query                           *)
(***************************************************************************)
\* The translated input as a sequence of words: a content word ("noun"),
\* a word that is not a noun, adjective or number ("verb"), the content
\* words "report" (an action word), "news" and "compare" (search
\* stopwords), and the coordinators " and " and " vs ".
Coordinators == {"and", "vs"}
QueryWords == {"noun", "verb", "report", "news", "compare"} \cup Coordinators
Queries ==
    [translated : UNION {[1..k -> QueryWords] : k \in 1..MaxQueryLen},
     korean_news : BOOLEAN]

\* re.split(split_pattern, translated, flags=re.IGNORECASE)
RECURSIVE SplitParts(_)
SplitParts(text) ==
    LET c == CHOOSE k \in 1..(Len(text) + 1) :
                 /\ k = Len(text) + 1 \/ text[k] \in Coordinators
                 /\ \A j \in 1..(k - 1) : text[j] \notin Coordinators
    IN IF c = Len(text) + 1 THEN <<text>>
       ELSE <<SubSeq(text, 1, c - 1)>> \o SplitParts(SubSeq(text, c + 1, Len(text)))

search_stopwords == {"news", "compare"}

\* The entity of one part: the content words outside the stopwords, or the
\* whole part when NLTK raised (<<>>: nothing is appended).
EntityOf(part, nltk_ok) ==
    IF nltk_ok
    THEN SelectSeq(part, LAMBDA w : w # "verb" /\ w \notin search_stopwords)
    ELSE part

RECURSIVE EntitiesOf(_, _)
EntitiesOf(parts, nltk_ok) ==
    IF parts = <<>> THEN <<>>
    ELSE LET e == EntityOf(Head(parts), nltk_ok) IN
         (IF e # <<>> THEN <<e>> ELSE <<>>) \o EntitiesOf(Tail(parts), nltk_ok)

Mentions(text, words) == \E k \in DOMAIN text : text[k] \in words

\* [Step 3]: "Compare results" is appended, " latest news" is added to
\* every entity of a news query, action words are removed.
WithCompare(entities, translated) ==
    IF /\ Mentions(translated, {"compare", "vs"})
       /\ Len(entities) >= 2
       /\ \A k \in DOMAIN entities : entities[k] # <<"Compare results">>
    THEN Append(entities, <<"Compare results">>)
    ELSE entities

WithNews(entities, query) ==
    IF (query.korean_news \/ Mentions(query.translated, {"news"})) /\ entities # <<>>
    THEN LET kept == SelectSeq(entities,
                               LAMBDA e : e \notin {<<"news">>, <<"report">>})
         IN [k \in DOMAIN kept |-> Append(kept[k], "latest news")]
    ELSE entities

action_words == {<<"report">>}
WithoutActions(entities) == SelectSeq(entities, LAMBDA e : e \notin action_words)

\* return entities if entities else [translated]
ReturnedEntities(entities, translated) == entities
Returned(entities, translated) ==
    IF entities # <<>> THEN entities ELSE <<translated>>

DecompInit ==
    /\ dpc = "start"
    /\ din \in Queries
    /\ dentities = <<>> /\ dout = <<>>
    /\ NotDecompIdle

\* Steps 1 and 2: the split and the entity of every part.
DecompEntities ==
    /\ dpc = "start"
    /\ \E nltk_ok \in BOOLEAN :
         dentities' = EntitiesOf(SplitParts(din.translated), nltk_ok)
    /\ dpc' = "post"
    /\ UNCHANGED <<din, dout>>
    /\ UNCHANGED notDecomp

DecompPost ==
    /\ dpc = "post"
    /\ dentities' = WithoutActions(WithNews(WithCompare(dentities, din.translated), din))
    /\ dpc' = "return"
    /\ UNCHANGED <<din, dout>>
    /\ UNCHANGED notDecomp

DecompReturn ==
    /\ dpc = "return"
    /\ dout' = Returned(dentities, din.translated)
    /\ dpc' = "done"
    /\ UNCHANGED <<din, dentities>>
    /\ UNCHANGED notDecomp

DecompNext == DecompEntities \/ DecompPost \/ DecompReturn

SpecDecomp == DecompInit /\ [][DecompNext]_vars

(***************************************************************************)
(*                   Brain.decompose_query : properties                    *)
(***************************************************************************)
\* C18: decompose_query returns at least one element, and exactly one when
\* the translated input holds no coordinator and no comparison word.
C18_DecompositionLength ==
    dpc = "done" =>
        /\ Len(dout) >= 1
        /\ ~Mentions(din.translated, Coordinators \cup {"compare"}) => Len(dout) = 1

\* An input without coordinator gave its one entity; an input of stopwords
\* only would have given the translated text back.
C18_Witness ==
    /\ dpc = "done"
    /\ ~Mentions(din.translated, Coordinators \cup {"compare"})
    /\ Len(din.translated) > 1
    /\ dout = <<<<"noun", "latest news">>>>

(***************************************************************************)
(*                 Model handles: reset before completion                  *)
(***************************************************************************)
\* The methods that run a completion, and the handle each of them uses.
CompletionMethods ==
    {"Brain.route", "Brain.direct_respond", "Brain.integrate_response",
     "Reasoner.solve", "ToolCaller.generate_tool_call"}

HandleOf(method) ==
    CASE method = "Reasoner.solve"                -> "reasoner.model"
      [] method = "ToolCaller.generate_tool_call" -> "tool_caller.falcon"
      [] OTHER                                    -> "brain.model"

\* if hasattr(self.model, "reset"): self.model.reset() -- written in the
\* three Brain methods only.
ResetsFirst(method) == HandleOf(method) = "brain.model"

HygInit ==
    /\ mcur = [method |-> "none", reset_done |-> FALSE]
    /\ mlog = <<>>
    /\ NotHygIdle

\* One of the methods is entered (calls are made one after the other here).
HygEnter ==
    /\ mcur.method = "none"
    /\ Len(SelectSeq(mlog, LAMBDA e : e.op = "completion")) < MaxCompletions
    /\ \E m \in CompletionMethods : mcur' = [method |-> m, reset_done |-> FALSE]
    /\ UNCHANGED mlog
    /\ UNCHANGED notHyg

HygReset ==
    /\ mcur.method # "none" /\ ResetsFirst(mcur.method) /\ ~mcur.reset_done
    /\ mlog' = Append(mlog, [handle |-> HandleOf(mcur.method), op |-> "reset"])
    /\ mcur' = [mcur EXCEPT !.reset_done = TRUE]
    /\ UNCHANGED notHyg

\* self.model(prompt, ...) / create_chat_completion(...) / self.falcon(prompt, ...)
HygCompletion ==
    /\ mcur.method # "none"
    /\ ResetsFirst(mcur.method) => mcur.reset_done
    /\ mlog' = Append(mlog, [handle |-> HandleOf(mcur.method), op |-> "completion"])
    /\ mcur' = [method |-> "none", reset_done |-> FALSE]
    /\ UNCHANGED notHyg

HygNext == HygEnter \/ HygReset \/ HygCompletion

SpecHyg == HygInit /\ [][HygNext]_vars

\* C23: every completion on a model handle comes right after a reset of
\* that handle.
C23_ResetBeforeCompletion ==
    \A k \in DOMAIN mlog :
        mlog[k].op = "completion" =>
            /\ k > 1
            /\ mlog[k - 1] = [handle |-> mlog[k].handle, op |-> "reset"]

(***************************************************************************)
(*           run_cowork_flow: what happens on each way out                 *)
(***************************************************************************)
\* Exceptions a call may raise: one caught by "except Exception" and one
\* that is not (KeyboardInterrupt derives from BaseException).
Exceptions == {"RuntimeError", "KeyboardInterrupt"}

IsException(e) == e = "RuntimeError"

\* The statements between _setup_cowork_logger and "try:", in source order.
BeforeTry == <<"construct", "attachments", "workers", "route", "live">>

\* The statements of the try body, in source order.
TryBody == <<"plan", "execute", "integrate", "translate", "save">>

\* Statements of the try body whose exceptions are not caught inside it
\* (from_english and write_file sit in their own try/except).
TryRaises == {"plan", "execute", "integrate", "translate"}

PositionAfter(steps, at) ==
    LET k == CHOOSE n \in DOMAIN steps : steps[n] = at
    IN  IF k < Len(steps) THEN steps[k + 1] ELSE "end"

FlowInit ==
    /\ fpc = "idle"
    /\ fin = [use_tui |-> FALSE, attachment |-> FALSE]
    /\ log_handler = "none" /\ handlers = {}
    /\ self_dashboard = "None" /\ live = "none"
    /\ critical = <<>> /\ exc = "None"
    /\ caller = [kind |-> "none", exc |-> "None"]
    /\ run_no = 0 /\ unclosed = 0
    /\ NotFlowIdle

\* run_cowork_flow(user_goal, workspace_root, use_tui) is called, for the
\* first time or again after an earlier call was left.  A handler the
\* earlier call left open stays open: nothing refers to it any more.
FlowEnter ==
    /\ fpc \in {"idle", "exited"}
    /\ run_no < MaxRuns
    /\ run_no' = run_no + 1
    /\ unclosed' = IF log_handler = "open" THEN unclosed + 1 ELSE unclosed
    /\ \E t, a \in BOOLEAN : fin' = [use_tui |-> t, attachment |-> a]
    /\ fpc' = "logger"
    /\ log_handler' = "none"
    /\ live' = "none"
    /\ exc' = "None"
    /\ caller' = [kind |-> "none", exc |-> "None"]
    /\ UNCHANGED <<handlers, self_dashboard, critical>>
    /\ UNCHANGED notFlow

\* logger.handlers.clear(); fh = logging.FileHandler(...); logger.addHandler(fh)
setup_cowork_logger ==
    /\ fpc = "logger"
    /\ log_handler' = "open"
    /\ handlers' = {"fh"}
    /\ fpc' = BeforeTry[1]
    /\ UNCHANGED <<fin, self_dashboard, live, critical, exc, caller>>
    /\ UNCHANGED <<run_no, unclosed>>
    /\ UNCHANGED notFlow

\* A statement ahead of "try:" completes.  "construct" ends with
\* self.dashboard = dashboard; "live" starts the display when use_tui.
FlowBeforeTry ==
    /\ \E k \in DOMAIN BeforeTry : fpc = BeforeTry[k]
    /\ self_dashboard' = IF fpc = "construct" THEN "dashboard"
                         ELSE self_dashboard
    /\ live' = IF fpc = "live" /\ fin.use_tui THEN "started" ELSE live
    /\ fpc' = IF PositionAfter(BeforeTry, fpc) = "end" THEN TryBody[1]
              ELSE PositionAfter(BeforeTry, fpc)
    /\ UNCHANGED <<fin, log_handler, handlers, critical, exc, caller>>
    /\ UNCHANGED <<run_no, unclosed>>
    /\ UNCHANGED notFlow

\* Where a statement ahead of "try:" can raise: WorkspaceContext makes the
\* workspace directory, _process_rag_attachments ingests and queries the
\* named file, brain.route runs a completion, Live.start opens the display.
CanRaiseBeforeTry(at) ==
    \/ at \in {"construct", "route"}
    \/ at = "attachments" /\ fin.attachment
    \/ at = "live" /\ fin.use_tui

\* A statement ahead of "try:" raises: no handler of run_cowork_flow is
\* around it, so the exception goes straight to the caller.
FlowBeforeTryRaises ==
    /\ \E k \in DOMAIN BeforeTry : fpc = BeforeTry[k]
    /\ CanRaiseBeforeTry(fpc)
    /\ \E e \in Exceptions :
         /\ exc' = e
         /\ caller' = [kind |-> "raise", exc |-> e]
    /\ fpc' = "exited"
    /\ UNCHANGED <<fin, log_handler, handlers, self_dashboard, live, critical>>
    /\ UNCHANGED <<run_no, unclosed>>
    /\ UNCHANGED notFlow

\* A statement of the try body completes.  The last one is followed by
\* live.stop() (when use_tui), self.dashboard = None and return final_report,
\* which runs the finally clause on the way out.
FlowTry ==
    /\ \E k \in DOMAIN TryBody : fpc = TryBody[k]
    /\ IF PositionAfter(TryBody, fpc) = "end"
       THEN /\ self_dashboard' = "None"
            /\ live' = IF fin.use_tui THEN "stopped" ELSE live
            /\ fpc' = "finally"
       ELSE /\ fpc' = PositionAfter(TryBody, fpc)
            /\ UNCHANGED <<self_dashboard, live>>
    /\ UNCHANGED <<fin, log_handler, handlers, critical, exc, caller>>
    /\ UNCHANGED <<run_no, unclosed>>
    /\ UNCHANGED notFlow

\* A statement of the try body raises: "except Exception as e" takes it
\* when it is an Exception, otherwise only the finally clause runs.
FlowTryRaises ==
    /\ fpc \in TryRaises
    /\ \E e \in Exceptions :
         /\ exc' = e
         /\ fpc' = IF IsException(e) THEN "except" ELSE "finally"
    /\ UNCHANGED <<fin, log_handler, handlers, self_dashboard, live, critical,
                   caller>>
    /\ UNCHANGED <<run_no, unclosed>>
    /\ UNCHANGED notFlow

\* except Exception as e: logger.critical(..., exc_info=True);
\* self.dashboard = None; if use_tui: live.stop(); raise e
FlowExcept ==
    /\ fpc = "except"
    /\ critical' = Append(critical,
                          [run |-> run_no, exc |-> exc, exc_info |-> TRUE])
    /\ self_dashboard' = "None"
    /\ live' = IF fin.use_tui THEN "stopped" ELSE live
    /\ fpc' = "finally"
    /\ UNCHANGED <<fin, log_handler, handlers, exc, caller>>
    /\ UNCHANGED <<run_no, unclosed>>
    /\ UNCHANGED notFlow

\* finally: log_handler.close(); logger.removeHandler(log_handler), then the
\* pending return or exception reaches the caller.
FlowFinally ==
    /\ fpc = "finally"
    /\ log_handler' = "closed"
    /\ handlers' = handlers \ {"fh"}
    /\ caller' = IF exc = "None" THEN [kind |-> "return", exc |-> "None"]
                 ELSE [kind |-> "raise", exc |-> exc]
    /\ fpc' = "exited"
    /\ UNCHANGED <<fin, self_dashboard, live, critical, exc>>
    /\ UNCHANGED <<run_no, unclosed>>
    /\ UNCHANGED notFlow

FlowNext ==
    \/ FlowEnter
    \/ setup_cowork_logger
    \/ FlowBeforeTry
    \/ FlowBeforeTryRaises
    \/ FlowTry
    \/ FlowTryRaises
    \/ FlowExcept
    \/ FlowFinally

SpecFlow == FlowInit /\ [][FlowNext]_vars

\* C28: whenever run_cowork_flow has been left, its log handler is closed
\* and removed and self.dashboard is None; when it was left by an exception,
\* that exception was logged at critical level with its stack trace and is
\* the one the caller receives.
C28_ExitIsCleanedUp ==
    fpc = "exited" =>
        /\ log_handler = "closed" /\ handlers = {}
        /\ self_dashboard = "None"
        /\ caller.kind = "raise" =>
              /\ caller.exc = exc
              /\ \E k \in DOMAIN critical :
                    critical[k] =
                        [run |-> run_no, exc |-> exc, exc_info |-> TRUE]

====
